---- MODULE Spec2Model ----
(***************************************************************************)
(* Device-management API: the bearer-token verifier of                     *)
(* app/middleware/auth.py (JWKSCache, decode_token, get_current_user,      *)
(* get_current_user_optional, the role checkers, identity extraction),     *)
(* the provisioning repository, /healthz and /enroll, as state machines.   *)
(*                                                                         *)
(* A Python Optional is a sequence of length 0 (None) or 1 (the value).    *)
(* Times are whole seconds.  Every handler is one action; the record       *)
(* `last` holds what the most recent call did until Deliver discards it.   *)
(***************************************************************************)
EXTENDS Integers, Sequences, FiniteSets, TLC

VARIABLES
    config,         \* get_jwt_config(): the lru-cached JWTConfig
    keys,           \* _jwks_cache._keys
    fetched_at,     \* _jwks_cache._fetched_at
    now,            \* datetime.now(timezone.utc), in seconds
    last,           \* the call that just returned, not yet delivered
    threads,        \* per thread: the statement of get_keys / invalidate it is at
    result,         \* what the most recent call outside the verifier was given and did
    provisioning,   \* the provisioning table, by client_uuid
    files,          \* the enrollment payloads held by the local directory and by S3
    audit           \* the device_connections table, in insertion order

vars == <<config, keys, fetched_at, now, last, threads, result, provisioning, files,
         audit>>

(* The variables the token verifier does not touch. *)
others == <<threads, result, provisioning, files, audit>>

----------------------------------------------------------------------------
(* Bounds of the model *)

MaxTime == 4        \* the clock runs 0..MaxTime
TTL == 2            \* JWKSCache._ttl, scaled down from 3600 s
Leeway == 1         \* JWTConfig.leeway_seconds, scaled down from 30 s

None == <<>>
Some(v) == <<v>>

----------------------------------------------------------------------------
(* HTTP status codes used by the middleware *)

HTTP_401_UNAUTHORIZED == 401
HTTP_403_FORBIDDEN == 403
HTTP_500_INTERNAL_SERVER_ERROR == 500

(* Both optional imports succeed in the packaged application. *)
JOSE_AVAILABLE == TRUE
HTTPX_AVAILABLE == TRUE

----------------------------------------------------------------------------
(* The identity provider's JWKS documents: {"keys": [{"kid": .., ..}, ..]}. *)
(* `mat` stands for the public-key material of the entry.                  *)

Jwk(kid, mat) == [kid |-> kid, mat |-> mat]

JwksOld == << Jwk("k1", "m1") >>
JwksRotated == << Jwk("k1", "m1"), Jwk("k2", "m2") >>

JwksDocs == {JwksOld, JwksRotated}

(* What one HTTP GET of the JWKS endpoint can produce: an error or a      *)
(* non-success status (ok = FALSE), or a JSON document.                    *)
FetchOutcomes ==
    {[ok |-> FALSE, json |-> <<>>]} \cup {[ok |-> TRUE, json |-> d] : d \in JwksDocs}

----------------------------------------------------------------------------
(* Bearer tokens.  wf: the compact serialisation parses; kid, alg: header  *)
(* fields; signer: the key material whose private half signed the token;  *)
(* exp (-1: no exp claim), iss, aud, sub ("": claim absent): the payload.  *)
(* realm_access is the list realm_access.roles as a set; resource_access   *)
(* is the set of <<client, role>> with role in resource_access[client].roles. *)

IssuerUrl == "https://idp/realms/r"
ClientId == "device-management-plugin"
NoExp == 0 - 1
Absent == ""

Tok(wf, kid, signer, alg, exp, iss, aud, sub) ==
    [wf |-> wf, kid |-> kid, signer |-> signer, alg |-> alg,
     exp |-> exp, iss |-> iss, aud |-> aud, sub |-> sub,
     realm_access |-> {}, resource_access |-> {}]

(* The same token issued with role grants. *)
WithRoles(tok, realm, resource) ==
    [tok EXCEPT !.realm_access = realm, !.resource_access = resource]

(* Client ids and role names are arbitrary strings; ':' may occur in both. *)
ClientIds == {"a", "a:b"}
RoleNames == {"c", "b:c", "admin"}

ValidlySigned == {<<"k1", "m1">>, <<"k2", "m2">>}
ExpValues == {NoExp, 0}
IssValues == {IssuerUrl, "https://evil/realms/r"}
AudValues == {Absent, ClientId, "account"}
SubValues == {"alice", "bob"}

Tokens ==
    {Tok(TRUE, kp[1], kp[2], "RS256", e, i, a, s) :
        kp \in ValidlySigned, e \in ExpValues, i \in IssValues,
        a \in AudValues, s \in SubValues}
    \cup
    { Tok(FALSE, Absent, Absent, Absent, NoExp, Absent, Absent, Absent),   \* garbage
      Tok(TRUE, "k1", "mX", "RS256", NoExp, IssuerUrl, ClientId, "alice"), \* forged
      Tok(TRUE, "k9", "m9", "RS256", NoExp, IssuerUrl, ClientId, "alice"), \* unknown kid
      Tok(TRUE, "k1", "m1", "HS256", NoExp, IssuerUrl, ClientId, "alice"), \* alg not allowed
      Tok(TRUE, "k1", "m1", "RS256", NoExp, Absent, ClientId, "alice"),    \* no iss
      Tok(TRUE, "k1", "m1", "RS256", NoExp, IssuerUrl, ClientId, Absent) } \* no sub
    \cup
    { WithRoles(Tok(TRUE, "k1", "m1", "RS256", NoExp, IssuerUrl, ClientId, "alice"),
                realm, resource) :
        realm \in {{}, {"admin"}},
        resource \in {{<<"a", "b:c">>}, {<<"a", "c">>, <<"a:b", "admin">>}} }

----------------------------------------------------------------------------
(* JWTConfig *)

JWTConfig(issuer_url, verify_exp, verify_aud) ==
    [issuer_url |-> issuer_url, client_id |-> ClientId, algorithms |-> {"RS256"},
     verify_exp |-> verify_exp, verify_aud |-> verify_aud,
     leeway_seconds |-> Leeway]

Configs ==
    {JWTConfig(u, e, a) : u \in {None, Some(IssuerUrl)}, e \in BOOLEAN, a \in BOOLEAN}

jwks_url(cfg) ==
    IF cfg.issuer_url = None \/ cfg.issuer_url = Some("")
    THEN None
    ELSE Some(cfg.issuer_url[1])

----------------------------------------------------------------------------
(* JWKSCache *)

Min(S) == CHOOSE x \in S : \A y \in S : x <= y

EmptyCache == [keys |-> None, fetched_at |-> None]

(* _fetch_jwks: the GET fails or answers a non-success status             *)
(* (raise_for_status) -> RuntimeError; otherwise response.json().          *)
_fetch_jwks(resp) ==
    IF ~HTTPX_AVAILABLE \/ ~resp.ok
    THEN [raised |-> TRUE, json |-> <<>>]
    ELSE [raised |-> FALSE, json |-> resp.json]

(* get_keys with the age compared by <= (an entry aged exactly TTL is      *)
(* still served).                                                          *)
get_keys_inclusive_ttl(cache, t, resp) ==
    IF /\ cache.keys # None
       /\ cache.fetched_at # None
       /\ (t - cache.fetched_at[1]) <= TTL
    THEN [raised |-> FALSE, keys |-> cache.keys[1], cache |-> cache, log |-> <<>>]
    ELSE IF ~resp.ok
         THEN [raised |-> TRUE, keys |-> <<>>, cache |-> cache, log |-> <<resp.ok>>]
         ELSE [raised |-> FALSE, keys |-> resp.json,
               cache |-> [keys |-> Some(resp.json), fetched_at |-> Some(t)],
               log |-> <<resp.ok>>]

(* get_keys falling back to the held key set when the fetch fails. *)
get_keys_serve_stale(cache, t, resp) ==
    IF /\ cache.keys # None
       /\ cache.fetched_at # None
       /\ (t - cache.fetched_at[1]) < TTL
    THEN [raised |-> FALSE, keys |-> cache.keys[1], cache |-> cache, log |-> <<>>]
    ELSE IF ~resp.ok /\ cache.keys # None
         THEN [raised |-> FALSE, keys |-> cache.keys[1], cache |-> cache,
               log |-> <<resp.ok>>]
         ELSE IF ~resp.ok
         THEN [raised |-> TRUE, keys |-> <<>>, cache |-> cache, log |-> <<resp.ok>>]
         ELSE [raised |-> FALSE, keys |-> resp.json,
               cache |-> [keys |-> Some(resp.json), fetched_at |-> Some(t)],
               log |-> <<resp.ok>>]

(* get_keys that never serves the held key set. *)
get_keys_uncached(cache, t, resp) ==
    LET f == _fetch_jwks(resp) IN
    IF f.raised
    THEN [raised |-> TRUE, keys |-> <<>>, cache |-> cache, log |-> <<resp.ok>>]
    ELSE [raised |-> FALSE, keys |-> f.json,
          cache |-> [keys |-> Some(f.json), fetched_at |-> Some(t)],
          log |-> <<resp.ok>>]

(* get_keys at time t, the endpoint answering resp if it is asked.  The    *)
(* result carries the cache afterwards and log, the remote fetches made    *)
(* (one entry per fetch: whether the endpoint answered with success).      *)
get_keys(cache, t, resp) ==
    IF /\ cache.keys # None
       /\ cache.fetched_at # None
       /\ (t - cache.fetched_at[1]) < TTL
    THEN [raised |-> FALSE, keys |-> cache.keys[1], cache |-> cache, log |-> <<>>]
    ELSE LET f == _fetch_jwks(resp) IN
         IF f.raised
         THEN [raised |-> TRUE, keys |-> <<>>, cache |-> cache, log |-> <<resp.ok>>]
         ELSE [raised |-> FALSE, keys |-> f.json,
               cache |-> [keys |-> Some(f.json), fetched_at |-> Some(t)],
               log |-> <<resp.ok>>]

(* invalidate() that forgets to clear the key set. *)
invalidate_timestamp_only(cache) == [keys |-> cache.keys, fetched_at |-> None]

invalidate(cache) == [keys |-> None, fetched_at |-> None]

----------------------------------------------------------------------------
(* python-jose, as decode_token uses it *)

(* jwt.get_unverified_header: JWTError when the token does not parse. *)
get_unverified_header(token) ==
    IF token.wf
    THEN [err |-> "none", msg |-> "", kid |-> token.kid]
    ELSE [err |-> "JWTError", msg |-> "Error decoding token headers.", kid |-> Absent]

(* jwt.decode(token, key, algorithms, audience, issuer, options): the      *)
(* signature first (the header's alg must be allowed, the signature must   *)
(* verify under key), then the claims in jose's order exp, aud, iss.       *)
(* A check of a claim the token does not carry passes for exp and aud;     *)
(* iss is compared with claims.get("iss").                                 *)
jwt_decode(token, key, algorithms, audience, issuer, options, t) ==
    IF token.alg \notin algorithms
    THEN [err |-> "JWTError", msg |-> "The specified alg value is not allowed", claims |-> None]
    ELSE IF token.signer # key.mat
    THEN [err |-> "JWTError", msg |-> "Signature verification failed.", claims |-> None]
    ELSE IF options.verify_exp /\ token.exp # NoExp /\ token.exp < t - options.leeway
    THEN [err |-> "ExpiredSignatureError", msg |-> "Signature has expired.", claims |-> None]
    ELSE IF options.verify_aud /\ token.aud # Absent /\ Some(token.aud) # audience
    THEN [err |-> "JWTClaimsError", msg |-> "Invalid audience", claims |-> None]
    ELSE IF token.iss # issuer
    THEN [err |-> "JWTClaimsError", msg |-> "Invalid issuer", claims |-> None]
    ELSE [err |-> "none", msg |-> "",
          claims |-> Some([sub |-> token.sub, iss |-> token.iss,
                           aud |-> token.aud, exp |-> token.exp,
                           realm_access |-> token.realm_access,
                           resource_access |-> token.resource_access])]

----------------------------------------------------------------------------
(* decode_token *)

(* What a call did: exc is the exception class that left it ("none": it    *)
(* returned), kind names the raise site, cache is the shared cache after   *)
(* the call, fetch_log the remote JWKS fetches it made, seen the key sets  *)
(* get_keys returned to it, and invalidations / decodes count its          *)
(* invalidate() and jwt.decode calls.                                      *)
Outcome(exc, status, detail, www, kind, claims, cache, f, seen, i, d) ==
    [exc |-> exc, status |-> status, detail |-> detail, www |-> www,
     kind |-> kind, claims |-> claims, cache |-> cache,
     fetch_log |-> f, seen |-> seen, invalidations |-> i, decodes |-> d]

find_key(jwks, kid) ==
    LET idx == {i \in 1..Len(jwks) : jwks[i].kid = kid}
    IN  IF idx = {} THEN None ELSE Some(jwks[Min(idx)])

(* Lines 275-279: the options handed to jwt.decode, without the leeway.    *)
decode_options_no_leeway(cfg) ==
    [verify_exp |-> cfg.verify_exp, verify_aud |-> cfg.verify_aud, leeway |-> 0]

(* Lines 275-279: the options handed to jwt.decode. *)
decode_options(cfg) ==
    [verify_exp |-> cfg.verify_exp, verify_aud |-> cfg.verify_aud,
     leeway |-> cfg.leeway_seconds]

(* The except clauses with the claims error answered as an expired token.  *)
except_clauses_claims_as_expired(err, msg, site) ==
    CASE err \in {"ExpiredSignatureError", "JWTClaimsError"} ->
            [status |-> HTTP_401_UNAUTHORIZED, detail |-> "Token has expired",
             www |-> "Bearer",
             kind |-> IF err = "JWTClaimsError" THEN "claims" ELSE "expired"]
      [] err = "JWTError" ->
            [status |-> HTTP_401_UNAUTHORIZED, detail |-> "Invalid token: " \o msg,
             www |-> "Bearer",
             kind |-> IF site = "header" THEN "malformed" ELSE "signature"]

(* Lines 294-311: the except clauses of decode_token, tried in order.      *)
(* ExpiredSignatureError and JWTClaimsError are subclasses of JWTError.    *)
(* site tells where the JWTError came from: the header parse or jwt.decode. *)
except_clauses(err, msg, site) ==
    CASE err = "ExpiredSignatureError" ->
            [status |-> HTTP_401_UNAUTHORIZED, detail |-> "Token has expired",
             www |-> "Bearer", kind |-> "expired"]
      [] err = "JWTClaimsError" ->
            [status |-> HTTP_401_UNAUTHORIZED,
             detail |-> "Invalid token claims: " \o msg,
             www |-> "Bearer", kind |-> "claims"]
      [] err = "JWTError" ->
            [status |-> HTTP_401_UNAUTHORIZED, detail |-> "Invalid token: " \o msg,
             www |-> "Bearer",
             kind |-> IF site = "header" THEN "malformed" ELSE "signature"]

(* Lines 274-292: jwt.decode with the located key. *)
validate_and_decode(token, rsa_key, cfg, t, cache, f, seen, i) ==
    LET audience == IF cfg.verify_aud THEN Some(cfg.client_id) ELSE None
        d == jwt_decode(token, rsa_key, cfg.algorithms, audience,
                        cfg.issuer_url[1], decode_options(cfg), t)
    IN  IF d.err = "none"
        THEN Outcome("none", 0, "", "", "ok", d.claims, cache, f, seen, i, 1)
        ELSE LET h == except_clauses(d.err, d.msg, "decode") IN
             Outcome("HTTPException", h.status, h.detail, h.www, h.kind,
                     None, cache, f, seen, i, 1)

(* The retry without the invalidation: the cache is asked again as it is. *)
refresh_and_retry_no_invalidate(token, kid, cfg, t, cache, f, seen, r2) ==
    LET g2 == get_keys(cache, t, r2) IN
    IF g2.raised
    THEN Outcome("RuntimeError", 0, "Failed to fetch JWKS", "", "key_fetch",
                 None, g2.cache, f \o g2.log, seen, 0, 0)
    ELSE LET k2 == find_key(g2.keys, kid)
             seen2 == Append(seen, g2.keys)
         IN  IF k2 = None
             THEN Outcome("HTTPException", HTTP_401_UNAUTHORIZED,
                          "Unable to find appropriate key", "Bearer", "unknown_key",
                          None, g2.cache, f \o g2.log, seen2, 0, 0)
             ELSE validate_and_decode(token, k2[1], cfg, t, g2.cache,
                                      f \o g2.log, seen2, 0)

(* Lines 258-272: the kid was not in the first key set. *)
refresh_and_retry(token, kid, cfg, t, cache, f, seen, r2) ==
    LET g2 == get_keys(invalidate(cache), t, r2) IN
    IF g2.raised
    THEN Outcome("RuntimeError", 0, "Failed to fetch JWKS", "", "key_fetch",
                 None, g2.cache, f \o g2.log, seen, 1, 0)
    ELSE LET k2 == find_key(g2.keys, kid)
             seen2 == Append(seen, g2.keys)
         IN  IF k2 = None
             THEN Outcome("HTTPException", HTTP_401_UNAUTHORIZED,
                          "Unable to find appropriate key", "Bearer", "unknown_key",
                          None, g2.cache, f \o g2.log, seen2, 1, 0)
             ELSE validate_and_decode(token, k2[1], cfg, t, g2.cache,
                                      f \o g2.log, seen2, 1)

(* decode_token(token) at time t on the shared cache; r1 and r2 are what   *)
(* the JWKS endpoint answers to the first and to the second fetch, if the  *)
(* call makes them.                                                        *)
decode_token(token, cfg, cache, t, r1, r2) ==
    IF ~JOSE_AVAILABLE
    THEN Outcome("HTTPException", HTTP_500_INTERNAL_SERVER_ERROR,
                 "JWT validation not available (python-jose not installed)",
                 "", "no_jose", None, cache, <<>>, <<>>, 0, 0)
    ELSE IF jwks_url(cfg) = None
    THEN Outcome("HTTPException", HTTP_500_INTERNAL_SERVER_ERROR,
                 "JWT validation not configured (KEYCLOAK_ISSUER_URL missing)",
                 "", "not_configured", None, cache, <<>>, <<>>, 0, 0)
    ELSE LET g1 == get_keys(cache, t, r1) IN
         IF g1.raised
         THEN Outcome("RuntimeError", 0, "Failed to fetch JWKS", "", "key_fetch",
                      None, g1.cache, g1.log, <<>>, 0, 0)
         ELSE LET hdr == get_unverified_header(token)
                  seen == <<g1.keys>>
              IN  IF hdr.err # "none"
                  THEN LET h == except_clauses(hdr.err, hdr.msg, "header") IN
                       Outcome("HTTPException", h.status, h.detail, h.www, h.kind,
                               None, g1.cache, g1.log, seen, 0, 0)
                  ELSE LET k1 == find_key(g1.keys, hdr.kid) IN
                       IF k1 # None
                       THEN validate_and_decode(token, k1[1], cfg, t, g1.cache,
                                                g1.log, seen, 0)
                       ELSE refresh_and_retry(token, hdr.kid, cfg, t, g1.cache,
                                              g1.log, seen, r2)

----------------------------------------------------------------------------
(* TokenUser *)

(* f"{client}:{role}" *)
client_role_key(client, role) == client \o ":" \o role

(* from_claims reading a claim the token does not carry. *)
from_claims_wrong_key(claims) ==
    [sub |-> "", realm_roles |-> claims.realm_access,
     client_roles |-> {client_role_key(p[1], p[2]) : p \in claims.resource_access}]

(* TokenUser.from_claims: sub = claims.get("sub", ""), realm_roles the     *)
(* list realm_access.roles, client_roles one "<resource>:<role>" string    *)
(* per role of every resource_access entry.                                *)
from_claims(claims) ==
    [sub |-> claims.sub, realm_roles |-> claims.realm_access,
     client_roles |-> {client_role_key(p[1], p[2]) : p \in claims.resource_access}]

(* TokenUser.has_role: role in self.realm_roles *)
has_role(user, role) == role \in user.realm_roles

(* TokenUser.has_client_role: f"{client}:{role}" in self.client_roles *)
has_client_role(user, client, role) == client_role_key(client, role) \in user.client_roles

----------------------------------------------------------------------------
(* The authentication dependencies *)

(* How the application answers when a dependency raises: an HTTPException  *)
(* with its own status, any other exception as 500 Internal Server Error.  *)
surfaced_status(o) ==
    CASE o.exc = "none" -> 0
      [] o.exc = "HTTPException" -> o.status
      [] OTHER -> HTTP_500_INTERNAL_SERVER_ERROR

(* get_current_user_optional with a bare `except Exception`. *)
get_current_user_optional_catch_all(cred, cfg, cache, t, r1, r2) ==
    IF cred = None
    THEN [dec |-> Outcome("none", 0, "", "", "no_credentials", None, cache, <<>>, <<>>, 0, 0),
          decoded |-> FALSE, exc |-> "none", status |-> 0, detail |-> "",
          www |-> "", user |-> None]
    ELSE LET o == decode_token(cred[1], cfg, cache, t, r1, r2) IN
         [dec |-> o, decoded |-> TRUE, exc |-> "none", status |-> 0,
          detail |-> "", www |-> "",
          user |-> IF o.exc = "none" THEN Some(from_claims(o.claims[1])) ELSE None]

(* get_current_user_optional(credentials): except HTTPException -> None *)
get_current_user_optional(cred, cfg, cache, t, r1, r2) ==
    IF cred = None
    THEN [dec |-> Outcome("none", 0, "", "", "no_credentials", None, cache, <<>>, <<>>, 0, 0),
          decoded |-> FALSE, exc |-> "none", status |-> 0, detail |-> "",
          www |-> "", user |-> None]
    ELSE LET o == decode_token(cred[1], cfg, cache, t, r1, r2) IN
         IF o.exc = "HTTPException"
         THEN [dec |-> o, decoded |-> TRUE, exc |-> "none", status |-> 0,
               detail |-> "", www |-> "", user |-> None]
         ELSE [dec |-> o, decoded |-> TRUE, exc |-> o.exc,
               status |-> surfaced_status(o), detail |-> o.detail, www |-> o.www,
               user |-> IF o.exc = "none" THEN Some(from_claims(o.claims[1])) ELSE None]

(* get_current_user letting a request without credentials through. *)
get_current_user_lenient(cred, cfg, cache, t, r1, r2) ==
    get_current_user_optional(cred, cfg, cache, t, r1, r2)

(* get_current_user(credentials) *)
get_current_user(cred, cfg, cache, t, r1, r2) ==
    IF cred = None
    THEN [dec |-> Outcome("HTTPException", HTTP_401_UNAUTHORIZED, "Not authenticated",
                          "Bearer", "no_credentials", None, cache, <<>>, <<>>, 0, 0),
          decoded |-> FALSE, exc |-> "HTTPException",
          status |-> HTTP_401_UNAUTHORIZED, detail |-> "Not authenticated",
          www |-> "Bearer", user |-> None]
    ELSE LET o == decode_token(cred[1], cfg, cache, t, r1, r2) IN
         [dec |-> o, decoded |-> TRUE, exc |-> o.exc,
          status |-> surfaced_status(o), detail |-> o.detail, www |-> o.www,
          user |-> IF o.exc = "none" THEN Some(from_claims(o.claims[1])) ELSE None]

----------------------------------------------------------------------------
(* The authorization dependencies.  A role checker depends on              *)
(* get_current_user: `a` is what that dependency did for the request, and  *)
(* the checker's body runs only when it returned a user.                   *)

Forbidden(a, detail) ==
    [a EXCEPT !.exc = "HTTPException", !.status = HTTP_403_FORBIDDEN,
              !.detail = detail, !.www = "", !.user = None]

(* require_role(role): role_checker *)
require_role(role, a) ==
    IF a.exc # "none" THEN a
    ELSE IF ~has_role(a.user[1], role)
    THEN Forbidden(a, "Missing required role: " \o role)
    ELSE a

(* require_client_role(client, role): role_checker *)
require_client_role(client, role, a) ==
    IF a.exc # "none" THEN a
    ELSE IF ~has_client_role(a.user[1], client, role)
    THEN Forbidden(a, "Missing required client role: " \o client_role_key(client, role))
    ELSE a

----------------------------------------------------------------------------
(* The state machine *)

Cache == [keys |-> keys, fetched_at |-> fetched_at]

(* `last`: op is the call; pre the cache when it was made (the clock does  *)
(* not advance before Deliver); cred the credentials it was given; dec what *)
(* decode_token did inside it (decoded: whether it was called at all);     *)
(* exc, status, detail, www what the caller of the dependency sees         *)
(* (status 0: it returned); user the identity it returned; ret the key set *)
(* a direct get_keys call returned; need the role the endpoint requires    *)
(* (client "": a realm role).                                              *)
NoOutcome == Outcome("none", 0, "", "", "none", None, EmptyCache, <<>>, <<>>, 0, 0)

NoCall ==
    [op |-> "none", pre |-> EmptyCache, cred |-> None, dec |-> NoOutcome,
     decoded |-> FALSE,
     exc |-> "none", status |-> 0, detail |-> "", www |-> "", user |-> None,
     ret |-> None, need |-> None]

(* The state of the parts of the application a specification leaves out. *)
NoThreads == <<>>
NoResult == [op |-> "none"]
NoProvisioning == <<>>
NoFiles == <<>>
NoAudit == <<>>

Init ==
    /\ config \in Configs
    /\ keys = None
    /\ fetched_at = None
    /\ now = 0
    /\ last = NoCall
    /\ threads = NoThreads
    /\ result = NoResult
    /\ provisioning = NoProvisioning
    /\ files = NoFiles
    /\ audit = NoAudit

Credentials == {None} \cup {Some(t) : t \in Tokens}

(* A request to an endpoint that depends on get_current_user. *)
RequiredAuthRequest ==
    /\ last.op = "none"
    /\ \E cred \in Credentials, r1 \in FetchOutcomes, r2 \in FetchOutcomes :
         LET a == get_current_user(cred, config, Cache, now, r1, r2) IN
         /\ keys' = a.dec.cache.keys
         /\ fetched_at' = a.dec.cache.fetched_at
         /\ last' = [op |-> "required", pre |-> Cache, cred |-> cred, dec |-> a.dec,
                     decoded |-> a.decoded, exc |-> a.exc, status |-> a.status,
                     detail |-> a.detail, www |-> a.www, user |-> a.user,
                     ret |-> None, need |-> None]
    /\ UNCHANGED <<config, now, others>>

(* A request to an endpoint that depends on get_current_user_optional. *)
OptionalAuthRequest ==
    /\ last.op = "none"
    /\ \E cred \in Credentials, r1 \in FetchOutcomes, r2 \in FetchOutcomes :
         LET a == get_current_user_optional(cred, config, Cache, now, r1, r2) IN
         /\ keys' = a.dec.cache.keys
         /\ fetched_at' = a.dec.cache.fetched_at
         /\ last' = [op |-> "optional", pre |-> Cache, cred |-> cred, dec |-> a.dec,
                     decoded |-> a.decoded, exc |-> a.exc, status |-> a.status,
                     detail |-> a.detail, www |-> a.www, user |-> a.user,
                     ret |-> None, need |-> None]
    /\ UNCHANGED <<config, now, others>>

(* The roles the application's endpoints require: a realm role, or a role *)
(* of a client.                                                            *)
Requirements ==
    { [client |-> "", role |-> "admin"],
      [client |-> "a:b", role |-> "c"],
      [client |-> "a", role |-> "c"] }

(* A request to an endpoint that depends on require_role(role) or          *)
(* require_client_role(client, role).                                      *)
RoleRequest ==
    /\ last.op = "none"
    /\ \E cred \in Credentials, r1 \in FetchOutcomes, r2 \in FetchOutcomes,
          need \in Requirements :
         LET u == get_current_user(cred, config, Cache, now, r1, r2)
             a == IF need.client = ""
                  THEN require_role(need.role, u)
                  ELSE require_client_role(need.client, need.role, u)
         IN
         /\ keys' = a.dec.cache.keys
         /\ fetched_at' = a.dec.cache.fetched_at
         /\ last' = [op |-> "role", pre |-> Cache, cred |-> cred, dec |-> a.dec,
                     decoded |-> a.decoded, exc |-> a.exc, status |-> a.status,
                     detail |-> a.detail, www |-> a.www, user |-> a.user,
                     ret |-> None, need |-> Some(need)]
    /\ UNCHANGED <<config, now, others>>

(* A direct call of _jwks_cache.get_keys(jwks_url). *)
GetKeysCall ==
    /\ last.op = "none"
    /\ \E r \in FetchOutcomes :
         LET g == get_keys(Cache, now, r) IN
         /\ keys' = g.cache.keys
         /\ fetched_at' = g.cache.fetched_at
         /\ last' = [NoCall EXCEPT
                       !.op = "get_keys",
                       !.pre = Cache,
                       !.exc = IF g.raised THEN "RuntimeError" ELSE "none",
                       !.dec = Outcome(IF g.raised THEN "RuntimeError" ELSE "none",
                                       0, "", "", "get_keys", None, g.cache,
                                       g.log, IF g.raised THEN <<>> ELSE <<g.keys>>,
                                       0, 0),
                       !.ret = IF g.raised THEN None ELSE Some(g.keys)]
    /\ UNCHANGED <<config, now, others>>

(* A direct call of _jwks_cache.invalidate(). *)
InvalidateCall ==
    /\ last.op = "none"
    /\ LET c == invalidate(Cache) IN
         /\ keys' = c.keys
         /\ fetched_at' = c.fetched_at
         /\ last' = [NoCall EXCEPT
                       !.op = "invalidate",
                       !.pre = Cache,
                       !.dec = Outcome("none", 0, "", "", "invalidate", None, c,
                                       <<>>, <<>>, 1, 0)]
    /\ UNCHANGED <<config, now, others>>

(* The clock advances by one second. *)
Tick ==
    /\ last.op = "none"
    /\ now < MaxTime
    /\ now' = now + 1
    /\ UNCHANGED <<config, keys, fetched_at, last, others>>

(* The caller has taken the result of the call. *)
Deliver ==
    /\ last.op # "none"
    /\ last' = NoCall
    /\ UNCHANGED <<config, keys, fetched_at, now, others>>

Next ==
    \/ RequiredAuthRequest
    \/ OptionalAuthRequest
    \/ RoleRequest
    \/ GetKeysCall
    \/ InvalidateCall
    \/ Tick
    \/ Deliver

Spec == Init /\ [][Next]_vars

----------------------------------------------------------------------------
(* Vocabulary of the properties *)

AuthCall == last.op \in {"required", "optional"}

(* decode_token ran inside the call that just returned. *)
Decoded == AuthCall /\ last.decoded

Token == last.cred[1]

HasKid(jwks, kid) == \E n \in 1..Len(jwks) : jwks[n].kid = kid

(* The key set lists the key that signed the token under the token's kid. *)
HasKey(jwks, kid, mat) == \E n \in 1..Len(jwks) : jwks[n].kid = kid /\ jwks[n].mat = mat

(* The cache was populated and younger than the TTL when the call was made. *)
WasFresh ==
    /\ last.pre.keys # None
    /\ last.pre.fetched_at # None
    /\ now - last.pre.fetched_at[1] < TTL

Configured == config.issuer_url # None

ClientTokenErrors == {"malformed", "unknown_key", "signature", "expired", "claims"}

----------------------------------------------------------------------------
(* C1: get_keys serves the cached key set with no remote fetch when the    *)
(* cache is populated and its age is strictly below the TTL; otherwise it  *)
(* makes exactly one remote fetch and, when that succeeds, replaces the    *)
(* cache (stamped with the time of the call) and returns the new set.  So  *)
(* a second call inside the TTL window makes no fetch and a call once the  *)
(* TTL has elapsed makes another one.                                      *)
C1_GetKeysFetchesOnlyWhenStale ==
    last.op = "get_keys" =>
        /\ WasFresh =>
              /\ last.dec.fetch_log = <<>>
              /\ last.exc = "none"
              /\ last.ret = last.pre.keys
              /\ Cache = last.pre
        /\ ~WasFresh =>
              /\ Len(last.dec.fetch_log) = 1
              /\ last.exc = "none" =>
                    /\ last.dec.fetch_log = <<TRUE>>
                    /\ last.ret # None
                    /\ keys = last.ret
                    /\ fetched_at = Some(now)

(* A later call inside the TTL window of an earlier fetch was served from  *)
(* the cache.                                                              *)
C1_Witness ==
    /\ last.op = "get_keys"
    /\ WasFresh
    /\ now > last.pre.fetched_at[1]
    /\ last.dec.fetch_log = <<>>
    /\ last.ret = last.pre.keys

----------------------------------------------------------------------------
(* C2: when the token's kid is not in the key set of the first lookup,     *)
(* decode_token invalidates the cache exactly once and refetches exactly   *)
(* once; with the kid in the refetched set verification goes on with that  *)
(* key (and can succeed), with the kid still absent the call ends with     *)
(* 401 "Unable to find appropriate key", and nothing more is invalidated   *)
(* or fetched.                                                             *)
C2_UnknownKidRefetchesOnce ==
    (Decoded /\ Len(last.dec.seen) >= 1 /\ Token.wf
        /\ ~HasKid(last.dec.seen[1], Token.kid)) =>
        /\ last.dec.invalidations = 1
        /\ Len(last.dec.fetch_log) = (IF WasFresh THEN 0 ELSE 1) + 1
        /\ Len(last.dec.seen) <= 2
        /\ Len(last.dec.seen) = 1 => last.dec.kind = "key_fetch"
        /\ Len(last.dec.seen) = 2 =>
              IF HasKid(last.dec.seen[2], Token.kid)
              THEN /\ last.dec.decodes = 1
                   /\ last.dec.kind \in {"ok", "signature", "expired", "claims"}
              ELSE /\ last.dec.decodes = 0
                   /\ last.dec.kind = "unknown_key"
                   /\ last.dec.exc = "HTTPException"
                   /\ last.dec.status = 401
                   /\ last.dec.detail = "Unable to find appropriate key"

(* A key rotation: the kid was found only in the refetched set and the     *)
(* token was accepted.                                                     *)
C2_Witness ==
    /\ Decoded
    /\ Len(last.dec.seen) = 2
    /\ ~HasKid(last.dec.seen[1], Token.kid)
    /\ last.dec.invalidations = 1
    /\ last.dec.kind = "ok"

----------------------------------------------------------------------------
(* C3: with no issuer URL configured every request that carries a bearer   *)
(* token fails with the not-configured error, surfaced as 500 and never    *)
(* as an anonymous caller, on required-auth and optional-auth endpoints.   *)
C3_NotConfiguredFailsClosed ==
    (AuthCall /\ last.cred # None /\ ~Configured) =>
        /\ last.dec.kind = "not_configured"
        /\ last.dec.claims = None
        /\ last.user = None
        /\ last.exc = "HTTPException"
        /\ last.status = 500

----------------------------------------------------------------------------
(* C4 as stated: on an optional-auth endpoint every verifier error is      *)
(* downgraded to the anonymous identity with no error surfaced, and on a   *)
(* required-auth endpoint none is swallowed.                               *)
C4_OptionalSwallowsEveryVerifierError ==
    /\ (last.op = "optional" /\ last.decoded /\ last.dec.exc # "none") =>
          /\ last.exc = "none"
          /\ last.status = 0
          /\ last.user = None
    /\ (last.op = "required" /\ last.decoded /\ last.dec.exc # "none") =>
          /\ last.exc = last.dec.exc
          /\ last.status >= 400
          /\ last.user = None

(* C4, amended: on an optional-auth endpoint a token that decode_token     *)
(* rejects with a client token error is handled exactly like no token      *)
(* (None, nothing surfaced); a JWKS fetch failure is not downgraded, its   *)
(* RuntimeError passes through and is surfaced as 500; on a required-auth  *)
(* endpoint no verifier error is swallowed.                                *)
C4_OptionalSwallowsClientTokenErrors ==
    /\ (last.op = "optional" /\ last.decoded /\ last.dec.kind \in ClientTokenErrors) =>
          /\ last.dec.exc = "HTTPException"
          /\ last.exc = "none"
          /\ last.status = 0
          /\ last.detail = ""
          /\ last.www = ""
          /\ last.user = None
    /\ (last.op = "optional" /\ last.decoded /\ last.dec.kind = "key_fetch") =>
          /\ last.exc = "RuntimeError"
          /\ last.status = 500
          /\ last.user = None
    /\ (last.op = "required" /\ last.decoded /\ last.dec.exc # "none") =>
          /\ last.exc = last.dec.exc
          /\ last.status >= 400
          /\ last.user = None

(* A token signed by an unknown key, sent to an optional-auth endpoint,    *)
(* came out as the anonymous identity.                                     *)
C4_Witness ==
    /\ last.op = "optional"
    /\ last.decoded
    /\ last.dec.kind = "unknown_key"
    /\ last.exc = "none"
    /\ last.user = None

----------------------------------------------------------------------------
(* C5: a remote fetch that fails makes get_keys fail with no key set, also *)
(* when an expired key set is held; the failure leaves decode_token, is    *)
(* surfaced as 500 on a required-auth endpoint, accepts no token, and no   *)
(* fetch follows it within the call.                                       *)
C5_FetchFailurePropagates ==
    \A n \in 1..Len(last.dec.fetch_log) :
        last.dec.fetch_log[n] = FALSE =>
            /\ n = Len(last.dec.fetch_log)
            /\ last.dec.exc = "RuntimeError"
            /\ last.dec.claims = None
            /\ last.ret = None
            /\ last.user = None
            /\ last.op = "get_keys" => last.exc = "RuntimeError"
            /\ last.op = "required" =>
                  /\ last.exc = "RuntimeError"
                  /\ last.status = 500

(* get_keys failed while an expired key set was held. *)
C5_Witness ==
    /\ last.op = "get_keys"
    /\ last.pre.keys # None
    /\ ~WasFresh
    /\ last.dec.fetch_log = <<FALSE>>
    /\ last.exc = "RuntimeError"
    /\ last.ret = None

----------------------------------------------------------------------------
(* C6: decode_token returns claims only if a key with the token's kid was  *)
(* found, the signature verifies under it with an allowed algorithm, the   *)
(* token is not expired beyond the leeway when verify_exp is on, iss is    *)
(* the configured issuer and, when verify_aud is on, the audience is the   *)
(* configured client id.                                                   *)
C6_ClaimsOnlyIfAllChecksPass ==
    (Decoded /\ last.dec.claims # None) =>
        /\ last.dec.exc = "none"
        /\ Token.wf
        /\ \E n \in 1..Len(last.dec.seen) :
              HasKey(last.dec.seen[n], Token.kid, Token.signer)
        /\ Token.alg \in config.algorithms
        /\ config.verify_exp =>
              (Token.exp = NoExp \/ now - Token.exp <= config.leeway_seconds)
        /\ Some(Token.iss) = config.issuer_url
        /\ config.verify_aud => Token.aud = config.client_id

----------------------------------------------------------------------------
(* C7: a valid, unexpired token signed by a key of the cached key set (the *)
(* cache populated and younger than the TTL) is accepted by decode_token   *)
(* without any fetch, the claims carry the token's sub, and so does the    *)
(* TokenUser built from them.                                              *)
C7_ValidTokenYieldsItsSubject ==
    (Decoded /\ Configured /\ WasFresh /\ Token.wf
        /\ HasKey(last.pre.keys[1], Token.kid, Token.signer)
        /\ Token.alg \in config.algorithms
        /\ (Token.exp = NoExp \/ Token.exp >= now)
        /\ Some(Token.iss) = config.issuer_url
        /\ (config.verify_aud => Token.aud = config.client_id)) =>
        /\ last.dec.exc = "none"
        /\ last.dec.fetch_log = <<>>
        /\ last.dec.claims # None
        /\ last.dec.claims[1].sub = Token.sub
        /\ last.exc = "none"
        /\ last.user # None
        /\ last.user[1].sub = Token.sub

(* The token of subject bob was accepted from a fresh cache. *)
C7_Witness ==
    /\ last.op = "required"
    /\ last.decoded
    /\ WasFresh
    /\ Token.sub = "bob"
    /\ Token.exp # NoExp
    /\ last.dec.kind = "ok"
    /\ last.user = Some(from_claims(last.dec.claims[1]))
    /\ last.user[1].sub = "bob"

----------------------------------------------------------------------------
(* C8: an otherwise valid token whose exp lies in the past by more than    *)
(* the leeway is rejected with 401 "Token has expired" when verify_exp is  *)
(* on and accepted when it is off; one whose exp lies in the past by no    *)
(* more than the leeway is accepted in both settings.                      *)
C8_ExpiryHonoursLeewayAndSwitch ==
    (Decoded /\ Configured /\ Len(last.dec.seen) >= 1 /\ Token.wf
        /\ HasKey(last.dec.seen[1], Token.kid, Token.signer)
        /\ Token.alg \in config.algorithms
        /\ Some(Token.iss) = config.issuer_url
        /\ (config.verify_aud => Token.aud = config.client_id)
        /\ Token.exp # NoExp /\ Token.exp < now) =>
        IF config.verify_exp /\ now - Token.exp > config.leeway_seconds
        THEN /\ last.dec.kind = "expired"
             /\ last.dec.exc = "HTTPException"
             /\ last.dec.status = 401
             /\ last.dec.detail = "Token has expired"
             /\ last.dec.claims = None
             /\ last.user = None
        ELSE /\ last.dec.exc = "none"
             /\ last.dec.claims # None

(* With verify_exp on, a token expired by exactly the leeway was accepted. *)
C8_Witness ==
    /\ Decoded
    /\ config.verify_exp
    /\ Token.exp # NoExp
    /\ Token.exp < now
    /\ now - Token.exp = config.leeway_seconds
    /\ last.dec.kind = "ok"

----------------------------------------------------------------------------
(* C9: a request without bearer credentials to a required-auth endpoint is *)
(* answered 401 with WWW-Authenticate: Bearer, and nothing else happened:  *)
(* decode_token was not called, nothing was fetched, the cache is as it    *)
(* was, whether or not an issuer is configured.                            *)
C9_NoCredentialsIs401BeforeVerification ==
    (last.op = "required" /\ last.cred = None) =>
        /\ last.exc = "HTTPException"
        /\ last.status = 401
        /\ last.www = "Bearer"
        /\ last.user = None
        /\ ~last.decoded
        /\ last.dec.fetch_log = <<>>
        /\ last.dec.seen = <<>>
        /\ last.dec.invalidations = 0
        /\ last.dec.decodes = 0
        /\ Cache = last.pre

(* No credentials, no issuer configured, empty cache: still 401. *)
C9_Witness ==
    /\ last.op = "required"
    /\ last.cred = None
    /\ ~Configured
    /\ last.status = 401
    /\ last.www = "Bearer"

----------------------------------------------------------------------------
(* C10: on a required-auth endpoint each client token error is answered    *)
(* 401 with WWW-Authenticate: Bearer and a detail that no other kind       *)
(* produces, and the verification is not retried: at most one jwt.decode,  *)
(* none after a malformed header or an unknown key.                        *)
DetailsOf(kind) ==
    CASE kind = "malformed" -> {"Invalid token: Error decoding token headers."}
      [] kind = "unknown_key" -> {"Unable to find appropriate key"}
      [] kind = "signature" -> {"Invalid token: Signature verification failed.",
                                "Invalid token: The specified alg value is not allowed"}
      [] kind = "expired" -> {"Token has expired"}
      [] kind = "claims" -> {"Invalid token claims: Invalid audience",
                             "Invalid token claims: Invalid issuer"}

C10_ClientTokenErrorsAre401Distinct ==
    (last.op = "required" /\ last.decoded /\ last.dec.kind \in ClientTokenErrors) =>
        /\ last.exc = "HTTPException"
        /\ last.status = 401
        /\ last.www = "Bearer"
        /\ last.user = None
        /\ last.detail \in DetailsOf(last.dec.kind)
        /\ \A k \in ClientTokenErrors \ {last.dec.kind} : last.detail \notin DetailsOf(k)
        /\ last.dec.decodes <= 1
        /\ last.dec.invalidations <= 1
        /\ Len(last.dec.fetch_log) <= 2
        /\ last.dec.kind \in {"malformed", "unknown_key"} => last.dec.decodes = 0
        /\ last.dec.kind = "malformed" => last.dec.invalidations = 0

(* A token with a wrong issuer was answered 401 with the claims detail. *)
C10_Witness ==
    /\ last.op = "required"
    /\ last.decoded
    /\ last.dec.kind = "claims"
    /\ last.status = 401
    /\ last.detail = "Invalid token claims: Invalid issuer"

----------------------------------------------------------------------------
(* C11: a dependency built by require_role(r) or require_client_role(c, r)  *)
(* lets a request through only if its bearer token verified and the user   *)
(* holds the role, that is, the verified claims grant realm role r, or     *)
(* role r of client c; a verified token that lacks the role gets 403; a    *)
(* request with no credentials or with a token the verifier rejects gets   *)
(* 401; and whenever authentication fails the answer is the one            *)
(* get_current_user gives, never 403.                                      *)

(* The verified claims grant the role the endpoint requires. *)
HoldsNeededRole ==
    LET claims == last.dec.claims[1]
        need == last.need[1]
    IN  IF need.client = ""
        THEN need.role \in claims.realm_access
        ELSE <<need.client, need.role>> \in claims.resource_access

C11_RoleCheckAfterAuthentication ==
    last.op = "role" =>
        /\ (last.exc = "none" =>
               /\ last.decoded
               /\ last.dec.exc = "none"
               /\ HoldsNeededRole
               /\ last.user = Some(from_claims(last.dec.claims[1])))
        /\ (last.dec.exc = "none" /\ ~HoldsNeededRole =>
               /\ last.exc = "HTTPException"
               /\ last.status = HTTP_403_FORBIDDEN
               /\ last.user = None)
        /\ (last.cred = None \/ last.dec.kind \in ClientTokenErrors =>
               /\ last.exc = "HTTPException"
               /\ last.status = HTTP_401_UNAUTHORIZED
               /\ last.www = "Bearer")
        /\ (last.dec.exc # "none" =>
               /\ last.status # HTTP_403_FORBIDDEN
               /\ last.status = surfaced_status(last.dec)
               /\ last.detail = last.dec.detail)

----------------------------------------------------------------------------
(* JWKSCache under threads.  The class takes no lock, so calls made from   *)
(* different threads interleave between statements.  Each thread is at one *)
(* statement of get_keys or invalidate:                                    *)
(*   gk_check         the condition of lines 173-177, `now` already read   *)
(*   gk_return_cached line 178, return self._keys                          *)
(*   gk_fetch         line 181, self._keys = self._fetch_jwks(jwks_url)    *)
(*   gk_store_time    line 182, self._fetched_at = now                     *)
(*   gk_return        line 183, return self._keys                          *)
(*   inv_keys         line 201, self._keys = None                          *)
(*   inv_time         line 202, self._fetched_at = None                    *)
(* t is the thread's local `now`, fetched the document its own fetch       *)
(* returned, ret the value its call returned.                              *)

NumThreads == 2
ThreadIds == 1..NumThreads

IdleThread ==
    [pc |-> "idle", op |-> "none", t |-> 0, fetched |-> None, ret |-> None,
     raised |-> FALSE]

InitRace ==
    /\ config = JWTConfig(Some(IssuerUrl), TRUE, TRUE)
    /\ keys = None
    /\ fetched_at = None
    /\ now = 0
    /\ last = NoCall
    /\ threads = [i \in ThreadIds |-> IdleThread]
    /\ result = NoResult
    /\ provisioning = NoProvisioning
    /\ files = NoFiles
    /\ audit = NoAudit

At(i, pc) == threads[i].pc = pc

Goto(i, pc) == threads' = [threads EXCEPT ![i].pc = pc]

(* get_keys is entered: now = datetime.now(timezone.utc), line 170. *)
ThreadCallsGetKeys(i) ==
    /\ At(i, "idle")
    /\ threads' = [threads EXCEPT ![i] = [IdleThread EXCEPT !.pc = "gk_check",
                                                          !.op = "get_keys",
                                                          !.t = now]]
    /\ UNCHANGED <<config, keys, fetched_at, now, last, result, provisioning, files, audit>>

(* Lines 173-177: is the cache populated and younger than the TTL? *)
ThreadChecksAge(i) ==
    /\ At(i, "gk_check")
    /\ IF /\ keys # None
          /\ fetched_at # None
          /\ (threads[i].t - fetched_at[1]) < TTL
       THEN Goto(i, "gk_return_cached")
       ELSE Goto(i, "gk_fetch")
    /\ UNCHANGED <<config, keys, fetched_at, now, last, result, provisioning, files, audit>>

(* Line 178: return self._keys, read again after the condition. *)
ThreadReturnsCached(i) ==
    /\ At(i, "gk_return_cached")
    /\ threads' = [threads EXCEPT ![i].pc = "done", ![i].ret = keys]
    /\ UNCHANGED <<config, keys, fetched_at, now, last, result, provisioning, files, audit>>

(* Line 181: the remote fetch and the assignment of its result to _keys;  *)
(* a failed fetch raises RuntimeError out of get_keys.                     *)
ThreadFetches(i) ==
    /\ At(i, "gk_fetch")
    /\ \E resp \in FetchOutcomes :
         LET f == _fetch_jwks(resp) IN
         IF f.raised
         THEN /\ threads' = [threads EXCEPT ![i].pc = "done", ![i].raised = TRUE]
              /\ UNCHANGED keys
         ELSE /\ threads' = [threads EXCEPT ![i].pc = "gk_store_time",
                                            ![i].fetched = Some(f.json)]
              /\ keys' = Some(f.json)
    /\ UNCHANGED <<config, fetched_at, now, last, result, provisioning, files, audit>>

(* Line 182: self._fetched_at = now *)
ThreadStoresTime(i) ==
    /\ At(i, "gk_store_time")
    /\ fetched_at' = Some(threads[i].t)
    /\ Goto(i, "gk_return")
    /\ UNCHANGED <<config, keys, now, last, result, provisioning, files, audit>>

(* Line 183: return self._keys *)
ThreadReturnsFetched(i) ==
    /\ At(i, "gk_return")
    /\ threads' = [threads EXCEPT ![i].pc = "done", ![i].ret = keys]
    /\ UNCHANGED <<config, keys, fetched_at, now, last, result, provisioning, files, audit>>

(* invalidate is entered. *)
ThreadCallsInvalidate(i) ==
    /\ At(i, "idle")
    /\ threads' = [threads EXCEPT ![i] = [IdleThread EXCEPT !.pc = "inv_keys",
                                                          !.op = "invalidate"]]
    /\ UNCHANGED <<config, keys, fetched_at, now, last, result, provisioning, files, audit>>

(* Line 201: self._keys = None *)
ThreadClearsKeys(i) ==
    /\ At(i, "inv_keys")
    /\ keys' = None
    /\ Goto(i, "inv_time")
    /\ UNCHANGED <<config, fetched_at, now, last, result, provisioning, files, audit>>

(* Line 202: self._fetched_at = None *)
ThreadClearsTime(i) ==
    /\ At(i, "inv_time")
    /\ fetched_at' = None
    /\ Goto(i, "done")
    /\ UNCHANGED <<config, keys, now, last, result, provisioning, files, audit>>

(* The caller has taken what the call returned. *)
ThreadDelivers(i) ==
    /\ At(i, "done")
    /\ threads' = [threads EXCEPT ![i] = IdleThread]
    /\ UNCHANGED <<config, keys, fetched_at, now, last, result, provisioning, files, audit>>

RaceTick ==
    /\ now < MaxTime
    /\ now' = now + 1
    /\ UNCHANGED <<config, keys, fetched_at, last, threads, result, provisioning, files, audit>>

NextRace ==
    \/ \E i \in ThreadIds : ThreadCallsGetKeys(i)
    \/ \E i \in ThreadIds : ThreadChecksAge(i)
    \/ \E i \in ThreadIds : ThreadReturnsCached(i)
    \/ \E i \in ThreadIds : ThreadFetches(i)
    \/ \E i \in ThreadIds : ThreadStoresTime(i)
    \/ \E i \in ThreadIds : ThreadReturnsFetched(i)
    \/ \E i \in ThreadIds : ThreadCallsInvalidate(i)
    \/ \E i \in ThreadIds : ThreadClearsKeys(i)
    \/ \E i \in ThreadIds : ThreadClearsTime(i)
    \/ \E i \in ThreadIds : ThreadDelivers(i)
    \/ RaceTick

SpecRace == InitRace /\ [][NextRace]_vars

----------------------------------------------------------------------------
(* C12: under any interleaving of concurrent invalidate() and get_keys()   *)
(* calls the key set and its timestamp change together: no reachable state *)
(* has _keys set and _fetched_at empty, or _keys empty and _fetched_at     *)
(* set.  Stated here for the states in which no call is between its two    *)
(* writes, where even a lock-protected cache would have to satisfy it.     *)

(* No thread is inside get_keys or invalidate. *)
Quiescent == \A i \in ThreadIds : threads[i].pc \in {"idle", "done"}

C12_KeysAndTimestampChangeTogether ==
    Quiescent => ((keys = None) <=> (fetched_at = None))

----------------------------------------------------------------------------
(* C13: under concurrent requests on the shared cache, every get_keys call *)
(* that returns yields one whole key set that is the document of a single  *)
(* remote fetch; no caller receives a partial, mixed or absent key set.    *)

C13_GetKeysReturnsOneWholeKeySet ==
    \A i \in ThreadIds :
        (threads[i].pc = "done" /\ threads[i].op = "get_keys" /\ ~threads[i].raised) =>
            /\ threads[i].ret # None
            /\ threads[i].ret[1] \in JwksDocs

----------------------------------------------------------------------------
(* The cache called directly, one call at a time.  `result` is the call    *)
(* that returned last: op, the time t and the cache pre when it was made,  *)
(* the HTTP response resp its fetch (if any) received, the fetches it made *)
(* (log), what it returned (ret) or that it raised, and in prev the op, t  *)
(* and pre of the call before it.                                          *)

NoFetch == [ok |-> FALSE, json |-> <<>>]

NoCacheCall ==
    [op |-> "none", t |-> 0, pre |-> EmptyCache, resp |-> NoFetch, log |-> <<>>,
     ret |-> None, raised |-> FALSE,
     prev |-> [op |-> "none", t |-> 0, pre |-> EmptyCache]]

InitCache ==
    /\ config = JWTConfig(Some(IssuerUrl), TRUE, TRUE)
    /\ keys = None
    /\ fetched_at = None
    /\ now = 0
    /\ last = NoCall
    /\ threads = NoThreads
    /\ result = NoCacheCall
    /\ provisioning = NoProvisioning
    /\ files = NoFiles
    /\ audit = NoAudit

Previous == [op |-> result.op, t |-> result.t, pre |-> result.pre]

(* _jwks_cache.get_keys(jwks_url) *)
CacheGetKeys ==
    /\ \E resp \in FetchOutcomes :
         LET g == get_keys(Cache, now, resp) IN
         /\ keys' = g.cache.keys
         /\ fetched_at' = g.cache.fetched_at
         /\ result' = [op |-> "get_keys", t |-> now, pre |-> Cache, resp |-> resp,
                       log |-> g.log,
                       ret |-> IF g.raised THEN None ELSE Some(g.keys),
                       raised |-> g.raised, prev |-> Previous]
    /\ UNCHANGED <<config, now, last, threads, provisioning, files, audit>>

(* _jwks_cache.invalidate() *)
CacheInvalidate ==
    /\ LET c == invalidate(Cache) IN
         /\ keys' = c.keys
         /\ fetched_at' = c.fetched_at
         /\ result' = [op |-> "invalidate", t |-> now, pre |-> Cache, resp |-> NoFetch,
                       log |-> <<>>, ret |-> None, raised |-> FALSE,
                       prev |-> Previous]
    /\ UNCHANGED <<config, now, last, threads, provisioning, files, audit>>

CacheTick ==
    /\ now < MaxTime
    /\ now' = now + 1
    /\ UNCHANGED <<config, keys, fetched_at, last, threads, result, provisioning, files, audit>>

NextCache ==
    \/ CacheGetKeys
    \/ CacheInvalidate
    \/ CacheTick

SpecCache == InitCache /\ [][NextCache]_vars

----------------------------------------------------------------------------
(* C14: whatever the cache held (nothing, a fresh set, an expired set),    *)
(* invalidate() leaves both the key set and its timestamp empty, and a     *)
(* get_keys call that follows it with no other call in between makes one   *)
(* remote fetch: it returns the document of that fetch (now the cached     *)
(* set, stamped with the time of the call) or raises when the fetch fails, *)
(* and never returns what was cached before.                               *)
C14_InvalidateForcesRefetch ==
    /\ (result.op = "invalidate" => keys = None /\ fetched_at = None)
    /\ (result.op = "get_keys" /\ result.prev.op = "invalidate") =>
          /\ result.pre = EmptyCache
          /\ result.log = <<result.resp.ok>>
          /\ IF result.resp.ok
             THEN /\ ~result.raised
                  /\ result.ret = Some(result.resp.json)
                  /\ keys = result.ret
                  /\ fetched_at = Some(result.t)
             ELSE /\ result.raised
                  /\ result.ret = None
                  /\ keys = None
                  /\ fetched_at = None

(* A fresh cached set was invalidated and the get_keys call made in the    *)
(* same second fetched and returned the rotated document.                  *)
C14_Witness ==
    /\ result.op = "get_keys"
    /\ result.prev.op = "invalidate"
    /\ result.prev.pre.keys = Some(JwksOld)
    /\ result.prev.pre.fetched_at # None
    /\ result.prev.t - result.prev.pre.fetched_at[1] < TTL
    /\ result.t = result.prev.t
    /\ result.log = <<TRUE>>
    /\ result.ret = Some(JwksRotated)

----------------------------------------------------------------------------
(* extract_identity_from_request(request, user, body_obj)                  *)
(*                                                                         *)
(* A JSON value of the body is [type, s]: a string s, or a number whose    *)
(* decimal text is s.  A header, a body field and user.email are Optional. *)

JStr(s) == [type |-> "str", s |-> s]
JNum(s) == [type |-> "num", s |-> s]

(* Python truthiness of an Optional value: None, "" and 0 are false. *)
Truthy(opt) == opt # None /\ opt[1].s \notin {"", "0"}

(* str(value) *)
py_str(v) == JStr(v.s)

UNKNOWN_EMAIL == JStr("unknown@local")
ZERO_UUID == JStr("00000000-0000-0000-0000-000000000000")
UNKNOWN_FINGERPRINT == JStr("unknown")

(* `a or b` over Optional values. *)
Or(a, b) == IF Truthy(a) THEN a ELSE b

(* The function with the header consulted before the authenticated user. *)
extract_identity_header_first(headers, user, body_obj) ==
    LET body == IF body_obj = None
                THEN [email |-> None, client_uuid |-> None, plugin_uuid |-> None,
                      encryption_key_fingerprint |-> None]
                ELSE body_obj[1]
    IN
    [email |->
        IF Truthy(headers.x_user_email) THEN headers.x_user_email[1]
        ELSE IF user # None /\ Truthy(user[1].email) THEN user[1].email[1]
        ELSE IF Truthy(body.email) THEN py_str(body.email[1])
        ELSE UNKNOWN_EMAIL,
     client_uuid |->
        IF Truthy(headers.x_client_uuid) THEN headers.x_client_uuid[1]
        ELSE IF Truthy(body.client_uuid) \/ Truthy(body.plugin_uuid)
        THEN py_str(Or(body.client_uuid, body.plugin_uuid)[1])
        ELSE ZERO_UUID,
     fingerprint |->
        Or(headers.x_encryption_key_fingerprint,
           Or(body.encryption_key_fingerprint, Some(UNKNOWN_FINGERPRINT)))[1]]

(* The function with the body's plugin_uuid consulted before client_uuid. *)
extract_identity_plugin_uuid_first(headers, user, body_obj) ==
    LET body == IF body_obj = None
                THEN [email |-> None, client_uuid |-> None, plugin_uuid |-> None,
                      encryption_key_fingerprint |-> None]
                ELSE body_obj[1]
    IN
    [email |->
        IF user # None /\ Truthy(user[1].email) THEN user[1].email[1]
        ELSE IF Truthy(headers.x_user_email) THEN headers.x_user_email[1]
        ELSE IF Truthy(body.email) THEN py_str(body.email[1])
        ELSE UNKNOWN_EMAIL,
     client_uuid |->
        IF Truthy(headers.x_client_uuid) THEN headers.x_client_uuid[1]
        ELSE IF Truthy(body.client_uuid) \/ Truthy(body.plugin_uuid)
        THEN py_str(Or(body.plugin_uuid, body.client_uuid)[1])
        ELSE ZERO_UUID,
     fingerprint |->
        Or(headers.x_encryption_key_fingerprint,
           Or(body.encryption_key_fingerprint, Some(UNKNOWN_FINGERPRINT)))[1]]

(* `body_obj and body_obj.get(k)` and `(body_obj or {}).get(k)`: a missing *)
(* body is a body without fields.                                          *)
extract_identity_from_request(headers, user, body_obj) ==
    LET body == IF body_obj = None
                THEN [email |-> None, client_uuid |-> None, plugin_uuid |-> None,
                      encryption_key_fingerprint |-> None]
                ELSE body_obj[1]
    IN
    [email |->
        IF user # None /\ Truthy(user[1].email) THEN user[1].email[1]
        ELSE IF Truthy(headers.x_user_email) THEN headers.x_user_email[1]
        ELSE IF Truthy(body.email) THEN py_str(body.email[1])
        ELSE UNKNOWN_EMAIL,
     client_uuid |->
        IF Truthy(headers.x_client_uuid) THEN headers.x_client_uuid[1]
        ELSE IF Truthy(body.client_uuid) \/ Truthy(body.plugin_uuid)
        THEN py_str(Or(body.client_uuid, body.plugin_uuid)[1])
        ELSE ZERO_UUID,
     fingerprint |->
        Or(headers.x_encryption_key_fingerprint,
           Or(body.encryption_key_fingerprint, Some(UNKNOWN_FINGERPRINT)))[1]]

(* The inputs: a header is absent, empty or set; a body field is absent,   *)
(* empty, a string or a number; the user is absent or has no, an empty or  *)
(* an email.                                                               *)
HeaderValues(v) == {None, Some(JStr("")), Some(JStr(v))}
BodyValues(v) == {None, Some(JStr("")), Some(JStr(v)), Some(JNum("7"))}

IdentityHeaders ==
    [x_user_email : HeaderValues("a@x.com"),
     x_client_uuid : HeaderValues("uuid-h"),
     x_encryption_key_fingerprint : HeaderValues("fp-h")]

IdentityBodies ==
    {None} \cup
    {Some(b) : b \in [email : BodyValues("b@x.com"),
                      client_uuid : BodyValues("uuid-c"),
                      plugin_uuid : BodyValues("uuid-p"),
                      encryption_key_fingerprint : BodyValues("fp-b")]}

IdentityUsers ==
    {None} \cup {Some([email |-> e]) : e \in {None, Some(JStr("")), Some(JStr("c@x.com"))}}

InitIdentity ==
    /\ config = JWTConfig(Some(IssuerUrl), TRUE, TRUE)
    /\ keys = None
    /\ fetched_at = None
    /\ now = 0
    /\ last = NoCall
    /\ threads = NoThreads
    /\ result = NoResult
    /\ provisioning = NoProvisioning
    /\ files = NoFiles
    /\ audit = NoAudit

(* One call of extract_identity_from_request. *)
ExtractIdentity ==
    /\ result.op = "none"
    /\ \E headers \in IdentityHeaders, user \in IdentityUsers, body_obj \in IdentityBodies :
         result' = [op |-> "identity", headers |-> headers, user |-> user,
                    body_obj |-> body_obj,
                    ret |-> extract_identity_from_request(headers, user, body_obj)]
    /\ UNCHANGED <<config, keys, fetched_at, now, last, threads, provisioning, files, audit>>

(* The caller has taken the tuple. *)
IdentityReturn ==
    /\ result.op = "identity"
    /\ result' = NoResult
    /\ UNCHANGED <<config, keys, fetched_at, now, last, threads, provisioning, files, audit>>

NextIdentity ==
    \/ ExtractIdentity
    \/ IdentityReturn

SpecIdentity == InitIdentity /\ [][NextIdentity]_vars

----------------------------------------------------------------------------
(* Vocabulary: the sources of the call that just returned.  A source is    *)
(* present when it is set to a non-empty value.                            *)

IdCall == result.op = "identity"

BodyField(k) == IF result.body_obj = None THEN None ELSE result.body_obj[1][k]

UserEmailPresent == result.user # None /\ Truthy(result.user[1].email)

----------------------------------------------------------------------------
(* C15: the email is the first present of: the authenticated identity's    *)
(* email, header X-User-Email, body field email (as a string), and else    *)
(* "unknown@local".  With all three present the identity's email wins,     *)
(* without an identity the header wins over the body, and with none the    *)
(* default is returned.                                                    *)
C15_EmailByFirstMatch ==
    IdCall =>
        LET h == result.headers.x_user_email
            b == BodyField("email")
            email == result.ret.email
        IN
        /\ UserEmailPresent => email = result.user[1].email[1]
        /\ (~UserEmailPresent /\ Truthy(h)) => email = h[1]
        /\ (~UserEmailPresent /\ ~Truthy(h) /\ Truthy(b)) =>
               email = [type |-> "str", s |-> b[1].s]
        /\ (~UserEmailPresent /\ ~Truthy(h) /\ ~Truthy(b)) =>
               email = [type |-> "str", s |-> "unknown@local"]

(* Header a@x.com, body b@x.com and an identity with email c@x.com:        *)
(* c@x.com was resolved.                                                   *)
C15_Witness ==
    /\ IdCall
    /\ result.headers.x_user_email = Some(JStr("a@x.com"))
    /\ BodyField("email") = Some(JStr("b@x.com"))
    /\ result.user = Some([email |-> Some(JStr("c@x.com"))])
    /\ result.ret.email = JStr("c@x.com")

----------------------------------------------------------------------------
(* C16: client_uuid is the first present of header X-Client-UUID, body     *)
(* client_uuid, body plugin_uuid, else the all-zero UUID; key_fingerprint  *)
(* the first present of header X-Encryption-Key-Fingerprint, body          *)
(* encryption_key_fingerprint, else "unknown"; neither depends on the      *)
(* other sources or on the authenticated identity, every call returns a    *)
(* non-empty value for all three fields, and nothing else changes.         *)
C16_UuidAndFingerprintByFirstMatch ==
    IdCall =>
        LET hu == result.headers.x_client_uuid
            bc == BodyField("client_uuid")
            bp == BodyField("plugin_uuid")
            hf == result.headers.x_encryption_key_fingerprint
            bf == BodyField("encryption_key_fingerprint")
            uuid == result.ret.client_uuid
            fp == result.ret.fingerprint
        IN
        /\ Truthy(hu) => uuid = hu[1]
        /\ (~Truthy(hu) /\ Truthy(bc)) => uuid = [type |-> "str", s |-> bc[1].s]
        /\ (~Truthy(hu) /\ ~Truthy(bc) /\ Truthy(bp)) =>
               uuid = [type |-> "str", s |-> bp[1].s]
        /\ (~Truthy(hu) /\ ~Truthy(bc) /\ ~Truthy(bp)) =>
               uuid = [type |-> "str", s |-> "00000000-0000-0000-0000-000000000000"]
        /\ Truthy(hf) => fp = hf[1]
        /\ (~Truthy(hf) /\ Truthy(bf)) => fp = bf[1]
        /\ (~Truthy(hf) /\ ~Truthy(bf)) => fp = [type |-> "str", s |-> "unknown"]
        /\ result.ret.email.s # "" /\ uuid.s # "" /\ fp.s # ""
        /\ keys = None /\ fetched_at = None /\ provisioning = NoProvisioning

(* No header, a body with both client_uuid and plugin_uuid and an          *)
(* authenticated identity: the body's client_uuid was resolved, and the    *)
(* fingerprint fell to its default.                                        *)
C16_Witness ==
    /\ IdCall
    /\ ~Truthy(result.headers.x_client_uuid)
    /\ BodyField("client_uuid") = Some(JStr("uuid-c"))
    /\ BodyField("plugin_uuid") = Some(JStr("uuid-p"))
    /\ UserEmailPresent
    /\ ~Truthy(result.headers.x_encryption_key_fingerprint)
    /\ ~Truthy(BodyField("encryption_key_fingerprint"))
    /\ result.ret.client_uuid = JStr("uuid-c")
    /\ result.ret.fingerprint = JStr("unknown")

----------------------------------------------------------------------------
(* TokenUser queried for roles.  The claims are drawn once; each query     *)
(* builds the user with from_claims and asks has_role or has_client_role.  *)

RoleClaims ==
    [sub : {"alice"},
     realm_access : SUBSET RoleNames,
     resource_access : SUBSET (ClientIds \X RoleNames)]

InitRoles ==
    /\ config = JWTConfig(Some(IssuerUrl), TRUE, TRUE)
    /\ keys = None
    /\ fetched_at = None
    /\ now = 0
    /\ last = NoCall
    /\ threads = NoThreads
    /\ \E claims \in RoleClaims :
         result = [op |-> "none", claims |-> claims, client |-> "", role |-> "",
                   ret |-> FALSE]
    /\ provisioning = NoProvisioning
    /\ files = NoFiles
    /\ audit = NoAudit

(* TokenUser.from_claims(claims).has_role(role) *)
HasRoleQuery ==
    /\ result.op = "none"
    /\ \E role \in RoleNames :
         result' = [result EXCEPT !.op = "has_role", !.role = role,
                                  !.ret = has_role(from_claims(result.claims), role)]
    /\ UNCHANGED <<config, keys, fetched_at, now, last, threads, provisioning, files, audit>>

(* TokenUser.from_claims(claims).has_client_role(client, role) *)
HasClientRoleQuery ==
    /\ result.op = "none"
    /\ \E client \in ClientIds, role \in RoleNames :
         result' = [result EXCEPT !.op = "has_client_role", !.client = client,
                                  !.role = role,
                                  !.ret = has_client_role(from_claims(result.claims),
                                                          client, role)]
    /\ UNCHANGED <<config, keys, fetched_at, now, last, threads, provisioning, files, audit>>

(* The caller has taken the answer. *)
RoleQueryReturn ==
    /\ result.op # "none"
    /\ result' = [result EXCEPT !.op = "none", !.client = "", !.role = "",
                                !.ret = FALSE]
    /\ UNCHANGED <<config, keys, fetched_at, now, last, threads, provisioning, files, audit>>

NextRoles ==
    \/ HasRoleQuery
    \/ HasClientRoleQuery
    \/ RoleQueryReturn

SpecRoles == InitRoles /\ [][NextRoles]_vars

----------------------------------------------------------------------------
(* C17: for a TokenUser built by from_claims, has_client_role(c, r) is     *)
(* true exactly when r is listed in claims.resource_access[c].roles, and   *)
(* has_role(r) exactly when r is listed in claims.realm_access.roles, for  *)
(* arbitrary strings c and r, which may contain ':'.                       *)
C17_RoleQueriesMatchTheClaims ==
    /\ result.op = "has_client_role" =>
          (result.ret <=> <<result.client, result.role>> \in result.claims.resource_access)
    /\ result.op = "has_role" =>
          (result.ret <=> result.role \in result.claims.realm_access)

----------------------------------------------------------------------------
(* The provisioning table and ProvisioningRepository.                      *)
(*                                                                         *)
(* `result` is the repository call that returned last: its arguments, the *)
(* table before it (pre), what it returned, whether it repeats the call    *)
(* before it, and what that call returned.                                 *)
(*                                                                         *)
(* The table is a set of rows.  Its schema is not part of the application  *)
(* code: the table is keyed by client identifier, so an INSERT of a        *)
(* client_uuid that already has a row fails with SQLSTATE 23505.           *)

Row(client_uuid, email, device_name, status, encryption_key, comments, updated_at) ==
    [client_uuid |-> client_uuid, email |-> email, device_name |-> device_name,
     status |-> status, encryption_key |-> encryption_key, comments |-> comments,
     updated_at |-> updated_at]

ProvisioningStatus == {"PENDING", "ENROLLED", "REVOKED", "FAILED"}

ClientUuids == {"uuid-1", "uuid-2"}

(* What the caller passes: email, device_name, encryption_key. *)
EnrollValues ==
    { [email |-> "a@x.com", device_name |-> "matisse", encryption_key |-> "fp-1"],
      [email |-> "b@x.com", device_name |-> "libreoffice", encryption_key |-> "unknown"] }

(* The database during one call: reachable, psycopg2 not installed, or a   *)
(* connection / statement error other than a unique violation.             *)
DbStates == {"ok", "no_driver", "error"}

RowsOf(table, client_uuid) == {r \in table : r.client_uuid = client_uuid}

(* INSERT INTO provisioning ... under the key on client_uuid. *)
db_insert(table, row) ==
    IF RowsOf(table, row.client_uuid) # {}
    THEN [pgcode |-> "23505", table |-> table]
    ELSE [pgcode |-> "", table |-> table \cup {row}]

(* UPDATE provisioning SET email, device_name, status = 'ENROLLED',        *)
(* encryption_key, updated_at = now()                                      *)
(* WHERE client_uuid = %s AND status IN ('PENDING', 'ENROLLED')            *)
db_update_enrolled(table, client_uuid, v, t, statuses) ==
    LET hit == {r \in table : r.client_uuid = client_uuid /\ r.status \in statuses}
    IN  [rowcount |-> Cardinality(hit),
         table |-> (table \ hit) \cup
                   {[r EXCEPT !.email = v.email, !.device_name = v.device_name,
                              !.status = "ENROLLED",
                              !.encryption_key = v.encryption_key,
                              !.updated_at = t] : r \in hit}]

(* upsert whose UPDATE has no condition on the status. *)
upsert_any_status(table, client_uuid, v, db, t) ==
    IF db # "ok"
    THEN [ret |-> FALSE, table |-> table]
    ELSE LET ins == db_insert(table, Row(client_uuid, v.email, v.device_name, "ENROLLED",
                                         v.encryption_key, "enroll", t))
         IN  IF ins.pgcode = ""
             THEN [ret |-> TRUE, table |-> ins.table]
             ELSE LET upd == db_update_enrolled(table, client_uuid, v, t, ProvisioningStatus)
                  IN  [ret |-> upd.rowcount > 0, table |-> upd.table]

(* ProvisioningRepository.upsert(email, client_uuid, device_name,          *)
(* encryption_key): False without psycopg2 (line 60) and on any exception  *)
(* (line 101); else the INSERT, and on 23505 the UPDATE.                   *)
upsert(table, client_uuid, v, db, t) ==
    IF db = "no_driver"
    THEN [ret |-> FALSE, table |-> table]
    ELSE IF db = "error"
    THEN [ret |-> FALSE, table |-> table]
    ELSE LET ins == db_insert(table, Row(client_uuid, v.email, v.device_name, "ENROLLED",
                                         v.encryption_key, "enroll", t))
         IN  IF ins.pgcode = ""
             THEN [ret |-> TRUE, table |-> ins.table]
             ELSE LET upd == db_update_enrolled(table, client_uuid, v, t,
                                                {"PENDING", "ENROLLED"})
                  IN  [ret |-> upd.rowcount > 0, table |-> upd.table]

(* revoke whose UPDATE has no condition on the status. *)
revoke_any_status(table, client_uuid, db, t) ==
    IF db # "ok"
    THEN [ret |-> FALSE, table |-> table]
    ELSE LET hit == RowsOf(table, client_uuid)
         IN  [ret |-> Cardinality(hit) > 0,
              table |-> (table \ hit) \cup
                        {[r EXCEPT !.status = "REVOKED", !.updated_at = t] : r \in hit}]

(* ProvisioningRepository.revoke(client_uuid) *)
revoke(table, client_uuid, db, t) ==
    IF db # "ok"
    THEN [ret |-> FALSE, table |-> table]
    ELSE LET hit == {r \in table : r.client_uuid = client_uuid
                                    /\ r.status \in {"PENDING", "ENROLLED"}}
         IN  [ret |-> Cardinality(hit) > 0,
              table |-> (table \ hit) \cup
                        {[r EXCEPT !.status = "REVOKED", !.updated_at = t] : r \in hit}]

(* ProvisioningRepository.get_by_client_uuid(client_uuid): None without   *)
(* psycopg2 and on any exception; else the most recently updated PENDING   *)
(* or ENROLLED row of the client, None when there is none.                 *)
get_by_client_uuid(table, client_uuid, db) ==
    IF db # "ok"
    THEN None
    ELSE LET hit == {r \in table : r.client_uuid = client_uuid
                                    /\ r.status \in {"PENDING", "ENROLLED"}}
         IN  IF hit = {}
             THEN None
             ELSE Some(CHOOSE r \in hit : \A q \in hit : q.updated_at <= r.updated_at)

(* Rows as they are before the application touches them: none, or one row  *)
(* of uuid-1 in any status, written by an earlier deployment.              *)
InitialTables ==
    {{}} \cup
    {{Row("uuid-1", "old@x.com", "old-device", st, "old-key", "imported", 0)} :
        st \in ProvisioningStatus}

NoRepoCall ==
    [op |-> "none", client_uuid |-> "", v |-> [email |-> "", device_name |-> "",
                                              encryption_key |-> ""],
     db |-> "ok", pre |-> {}, ret |-> FALSE, repeat |-> FALSE, prev_ret |-> FALSE,
     got |-> None]

InitProvisioning ==
    /\ config = JWTConfig(Some(IssuerUrl), TRUE, TRUE)
    /\ keys = None
    /\ fetched_at = None
    /\ now = 0
    /\ last = NoCall
    /\ threads = NoThreads
    /\ result = NoRepoCall
    /\ provisioning \in InitialTables
    /\ files = NoFiles
    /\ audit = NoAudit

(* The call before this one was the same upsert, and reached the database. *)
Repeats(client_uuid, v) ==
    /\ result.op = "upsert"
    /\ result.db = "ok"
    /\ result.client_uuid = client_uuid
    /\ result.v = v

(* provisioning_repo.upsert(...) *)
UpsertCall ==
    /\ \E client_uuid \in ClientUuids, v \in EnrollValues, db \in DbStates :
         LET u == upsert(provisioning, client_uuid, v, db, now) IN
         /\ provisioning' = u.table
         /\ result' = [op |-> "upsert", client_uuid |-> client_uuid, v |-> v, db |-> db,
                       pre |-> provisioning, ret |-> u.ret,
                       repeat |-> Repeats(client_uuid, v), prev_ret |-> result.ret,
                       got |-> None]
    /\ UNCHANGED <<config, keys, fetched_at, now, last, threads, files, audit>>

(* provisioning_repo.revoke(client_uuid) *)
RevokeCall ==
    /\ \E client_uuid \in ClientUuids, db \in DbStates :
         LET u == revoke(provisioning, client_uuid, db, now) IN
         /\ provisioning' = u.table
         /\ result' = [op |-> "revoke", client_uuid |-> client_uuid, v |-> NoRepoCall.v,
                       db |-> db, pre |-> provisioning, ret |-> u.ret,
                       repeat |-> FALSE, prev_ret |-> result.ret, got |-> None]
    /\ UNCHANGED <<config, keys, fetched_at, now, last, threads, files, audit>>

(* provisioning_repo.get_by_client_uuid(client_uuid) *)
GetCall ==
    /\ \E client_uuid \in ClientUuids, db \in DbStates :
         result' = [op |-> "get", client_uuid |-> client_uuid, v |-> NoRepoCall.v,
                    db |-> db, pre |-> provisioning, ret |-> FALSE,
                    repeat |-> FALSE, prev_ret |-> result.ret,
                    got |-> get_by_client_uuid(provisioning, client_uuid, db)]
    /\ UNCHANGED <<config, keys, fetched_at, now, last, threads, provisioning, files, audit>>

(* Postgres now() advances. *)
DbTick ==
    /\ now < MaxTime
    /\ now' = now + 1
    /\ UNCHANGED <<config, keys, fetched_at, last, threads, result, provisioning, files, audit>>

NextProvisioning ==
    \/ UpsertCall
    \/ RevokeCall
    \/ GetCall
    \/ DbTick

SpecProvisioning == InitProvisioning /\ [][NextProvisioning]_vars

----------------------------------------------------------------------------
(* Vocabulary: the upsert that just returned. *)

UpsertDone == result.op = "upsert"

(* A row without its timestamp. *)
Fields(r) ==
    [client_uuid |-> r.client_uuid, email |-> r.email, device_name |-> r.device_name,
     status |-> r.status, encryption_key |-> r.encryption_key, comments |-> r.comments]

PreRows == RowsOf(result.pre, result.client_uuid)
PostRows == RowsOf(provisioning, result.client_uuid)

(* The rows of the other clients are as they were. *)
OtherRowsKept ==
    provisioning \ PostRows = result.pre \ PreRows

(* The client's one record is ENROLLED and carries the call's values. *)
EnrolledWithValues(rows) ==
    /\ Cardinality(rows) = 1
    /\ \A r \in rows :
         /\ r.status = "ENROLLED"
         /\ r.email = result.v.email
         /\ r.device_name = result.v.device_name
         /\ r.encryption_key = result.v.encryption_key

----------------------------------------------------------------------------
(* C18 as stated: upsert inserts an ENROLLED record and returns True when  *)
(* the client has none; updates email, device_name and encryption_key,     *)
(* sets ENROLLED and returns True when the record is PENDING or ENROLLED;  *)
(* changes nothing and returns False when the record has another status;   *)
(* and repeating the same upsert leaves the same single record.            *)
C18_UpsertIsIdempotentEnrollment ==
    UpsertDone =>
        /\ OtherRowsKept
        /\ PreRows = {} =>
              /\ result.ret
              /\ EnrolledWithValues(PostRows)
        /\ (\E r \in PreRows : r.status \in {"PENDING", "ENROLLED"}) =>
              /\ result.ret
              /\ EnrolledWithValues(PostRows)
              /\ {r.comments : r \in PostRows} = {r.comments : r \in PreRows}
        /\ (\E r \in PreRows : r.status \in {"REVOKED", "FAILED"}) =>
              /\ ~result.ret
              /\ provisioning = result.pre
        /\ result.repeat =>
              /\ {Fields(r) : r \in PostRows} = {Fields(r) : r \in PreRows}
              /\ Cardinality(PostRows) <= 1

(* C18 amended: the three cases hold of a call that reaches the database;  *)
(* a call made without psycopg2, or whose connection or statement fails,   *)
(* changes nothing and returns False.  Repeating an upsert that reached    *)
(* the database returns the same value and leaves the same single record   *)
(* (its updated_at aside).                                                 *)
C18_UpsertIsIdempotentWhenDbReachable ==
    UpsertDone =>
        /\ OtherRowsKept
        /\ result.db # "ok" =>
              /\ ~result.ret
              /\ provisioning = result.pre
        /\ (result.db = "ok" /\ PreRows = {}) =>
              /\ result.ret
              /\ EnrolledWithValues(PostRows)
        /\ (result.db = "ok" /\ \E r \in PreRows : r.status \in {"PENDING", "ENROLLED"}) =>
              /\ result.ret
              /\ EnrolledWithValues(PostRows)
              /\ {r.comments : r \in PostRows} = {r.comments : r \in PreRows}
        /\ (result.db = "ok" /\ \E r \in PreRows : r.status \in {"REVOKED", "FAILED"}) =>
              /\ ~result.ret
              /\ provisioning = result.pre
        /\ (result.db = "ok" /\ result.repeat) =>
              /\ result.ret = result.prev_ret
              /\ {Fields(r) : r \in PostRows} = {Fields(r) : r \in PreRows}
              /\ Cardinality(PostRows) <= 1

(* A PENDING record written earlier was enrolled by an upsert, and the     *)
(* same upsert made again at a later time returned True and left the one   *)
(* record as it was.                                                       *)
C18_Witness ==
    /\ UpsertDone
    /\ result.db = "ok"
    /\ result.repeat
    /\ result.ret
    /\ result.client_uuid = "uuid-1"
    /\ \E r \in PreRows : r.comments = "imported" /\ r.updated_at < now
    /\ EnrolledWithValues(PostRows)
    /\ \E r \in PostRows : r.updated_at = now

----------------------------------------------------------------------------
(* GET /healthz: the handler of app/main.py (the served application) and   *)
(* the router handler of app/routes/healthz.py.                            *)
(*                                                                         *)
(* env is the settings and the state of the dependencies during the call:  *)
(* store_enroll_locally, store_enroll_s3, binaries_mode, whether s3_bucket *)
(* and the database URL are set, whether psycopg2 imported, and whether    *)
(* enroll_dir is writable, the bucket answers and the database answers.    *)

HealthEnvs ==
    [store_enroll_locally : BOOLEAN, local_writable : BOOLEAN,
     store_enroll_s3 : BOOLEAN, binaries_mode : {"local", "presign"},
     s3_bucket : BOOLEAN, s3_reachable : BOOLEAN,
     db_url : BOOLEAN, psycopg2 : BOOLEAN, db_reachable : BOOLEAN]

HTTP_200_OK == 200
PROBLEM_JSON == "application/problem+json"

check_local_storage(env) ==
    IF env.store_enroll_locally
    THEN IF env.local_writable
         THEN [status |-> "ok", errors |-> <<>>]
         ELSE [status |-> "error", errors |-> <<"Local enroll_dir not writable">>]
    ELSE [status |-> "skipped", errors |-> <<>>]

check_s3(env) ==
    LET s3_required == env.store_enroll_s3 \/ env.binaries_mode \in {"presign", "proxy"}
    IN  IF s3_required /\ ~env.s3_bucket
        THEN [status |-> "error",
              errors |-> <<"S3 bucket is not configured (DM_S3_BUCKET missing).">>]
        ELSE IF env.s3_bucket
        THEN IF env.s3_reachable
             THEN [status |-> "ok", errors |-> <<>>]
             ELSE [status |-> "error", errors |-> <<"S3 not reachable or unauthorized">>]
        ELSE [status |-> "skipped", errors |-> <<>>]

(* The database check of main.healthz: _db_url(), psycopg2, connect. *)
check_db_main(env) ==
    IF ~env.db_url
    THEN [status |-> "error", errors |-> <<"Database URL is not configured.">>]
    ELSE IF ~env.psycopg2
    THEN [status |-> "error",
          errors |-> <<"psycopg2 is not installed; cannot verify DB connection.">>]
    ELSE IF env.db_reachable
    THEN [status |-> "ok", errors |-> <<>>]
    ELSE [status |-> "error", errors |-> <<"DB not reachable or unauthorized">>]

(* db.connection.check_connection() *)
check_connection(env) == env.psycopg2 /\ env.db_url /\ env.db_reachable

(* The database check of routes.healthz: PSYCOPG2_AVAILABLE, check_connection. *)
check_db_routes(env) ==
    IF ~env.psycopg2
    THEN [status |-> "error",
          errors |-> <<"psycopg2 is not installed; cannot verify DB connection.">>]
    ELSE IF check_connection(env)
    THEN [status |-> "ok", errors |-> <<>>]
    ELSE [status |-> "error", errors |-> <<"DB not reachable or unauthorized">>]

(* The response: errors is None when the body has no "errors" member. *)
HealthResponse(l, s, d, errors) ==
    [status_code |-> HTTP_200_OK, media_type |-> PROBLEM_JSON,
     title |-> IF errors = None \/ errors = Some(<<>>) THEN "OK"
               ELSE "Dependency check failed",
     checks |-> [local_storage |-> l.status, s3 |-> s.status, db |-> d.status],
     errors |-> errors]

(* app.main.healthz: the healthy body is built without "errors". *)
healthz_main(env) ==
    LET l == check_local_storage(env)
        s == check_s3(env)
        d == check_db_main(env)
        errors == l.errors \o s.errors \o d.errors
    IN  IF errors # <<>>
        THEN HealthResponse(l, s, d, Some(errors))
        ELSE HealthResponse(l, s, d, None)

(* app.routes.healthz.healthz: the healthy body carries "errors": []. *)
healthz_routes(env) ==
    LET l == check_local_storage(env)
        s == check_s3(env)
        d == check_db_routes(env)
        errors == l.errors \o s.errors \o d.errors
    IN  IF errors # <<>>
        THEN HealthResponse(l, s, d, Some(errors))
        ELSE HealthResponse(l, s, d, Some(<<>>))

InitHealth ==
    /\ config = JWTConfig(Some(IssuerUrl), TRUE, TRUE)
    /\ keys = None
    /\ fetched_at = None
    /\ now = 0
    /\ last = NoCall
    /\ threads = NoThreads
    /\ result = NoResult
    /\ provisioning = NoProvisioning
    /\ files = NoFiles
    /\ audit = NoAudit

(* GET /healthz served by app.main:app. *)
HealthzMain ==
    /\ result.op = "none"
    /\ \E env \in HealthEnvs :
         result' = [op |-> "healthz", handler |-> "main", env |-> env,
                    resp |-> healthz_main(env)]
    /\ UNCHANGED <<config, keys, fetched_at, now, last, threads, provisioning, files, audit>>

(* GET /healthz served by the router of app.routes. *)
HealthzRoutes ==
    /\ result.op = "none"
    /\ \E env \in HealthEnvs :
         result' = [op |-> "healthz", handler |-> "routes", env |-> env,
                    resp |-> healthz_routes(env)]
    /\ UNCHANGED <<config, keys, fetched_at, now, last, threads, provisioning, files, audit>>

(* The response has been sent. *)
HealthzSent ==
    /\ result.op = "healthz"
    /\ result' = NoResult
    /\ UNCHANGED <<config, keys, fetched_at, now, last, threads, provisioning, files, audit>>

NextHealth ==
    \/ HealthzMain
    \/ HealthzRoutes
    \/ HealthzSent

SpecHealth == InitHealth /\ [][NextHealth]_vars

----------------------------------------------------------------------------
(* C19: GET /healthz answers 200 with media type application/problem+json  *)
(* whatever the state of local storage, S3 and the database; its body      *)
(* carries the checks local_storage, s3 and db, each ok, error or skipped, *)
(* and an errors member that is a list, empty exactly when no check has    *)
(* status error.                                                           *)
C19_HealthzAlwaysReportsChecksAndErrors ==
    result.op = "healthz" =>
        LET resp == result.resp
            st == {resp.checks.local_storage, resp.checks.s3, resp.checks.db}
        IN
        /\ resp.status_code = 200
        /\ resp.media_type = "application/problem+json"
        /\ st \subseteq {"ok", "error", "skipped"}
        /\ resp.errors # None
        /\ (resp.errors[1] = <<>>) <=> ("error" \notin st)

----------------------------------------------------------------------------
(* /enroll: the handler of app/main.py (the served application) and the    *)
(* router handler of app/routes/enroll.py.                                 *)
(*                                                                         *)
(* A request: the method; the body's size (empty, within the limit, above  *)
(* MAX_BODY_BYTES); what json.loads makes of it (invalid, an array, an     *)
(* object), and for an object its members device_name, plugin_uuid, email  *)
(* (None: absent).  env: whether local and S3 storage are off, working or  *)
(* failing, whether the database answers, and for the router handler       *)
(* whether its get_current_user_optional dependency returned or raised.    *)

VALID_UUID == "b9bdf6ad-3b1f-4f1a-9f07-4f8606c3fe5a"

(* str.strip() and str.lower() on the strings of the model. *)
Strip(s) ==
    CASE s = "   " -> ""
      [] s = "  MATISSE  " -> "MATISSE"
      [] OTHER -> s

Lower(s) ==
    CASE s = "MATISSE" -> "matisse"
      [] s = "  MATISSE  " -> "  matisse  "
      [] OTHER -> s

(* uuid.UUID(s) parses. *)
IsUuid(s) == s = VALID_UUID

(* EmailStr accepts s. *)
IsEmail(s) == s \in {"user@example.com", "a@x.com", "b@x.com"}

IsStr(opt) == opt # None /\ opt[1].type = "str"

EnrollFields ==
    [device_name : {None, Some(JStr("   ")), Some(JStr("matisse")),
                    Some(JStr("  MATISSE  ")), Some(JNum("7"))},
     plugin_uuid : {None, Some(JStr("not-a-uuid")), Some(JStr(VALID_UUID))},
     email : {None, Some(JStr("not-an-email")), Some(JStr("user@example.com"))}]

NoFields == [device_name |-> None, plugin_uuid |-> None, email |-> None]

ValidFields ==
    [device_name |-> Some(JStr("matisse")), plugin_uuid |-> Some(JStr(VALID_UUID)),
     email |-> Some(JStr("user@example.com"))]

EnrollBodies ==
    {[size |-> "empty", json |-> "invalid", fields |-> NoFields]}
    \cup {[size |-> sz, json |-> j, fields |-> NoFields] :
             sz \in {"ok", "too_large"}, j \in {"invalid", "array"}}
    \cup {[size |-> "too_large", json |-> "object", fields |-> ValidFields]}
    \cup {[size |-> "ok", json |-> "object", fields |-> f] : f \in EnrollFields}

(* The identity headers of a request, and what the router's dependency     *)
(* get_current_user_optional returned for it.                              *)
NoHeaders ==
    [x_user_email |-> None, x_client_uuid |-> None,
     x_encryption_key_fingerprint |-> None]

EnrollHeaders ==
    {NoHeaders,
     [x_user_email |-> Some(JStr("a@x.com")), x_client_uuid |-> Some(JStr("uuid-h")),
      x_encryption_key_fingerprint |-> Some(JStr("fp-h"))]}

EnrollUsers == {None, Some([email |-> Some(JStr("c@x.com"))])}

EnrollRequests ==
    [method : {"POST", "PUT", "OPTIONS"}, body : EnrollBodies, headers : EnrollHeaders]

(* local, s3: the store is off, working or failing (for S3 also: the       *)
(* bucket is not configured); db, db_log: the database as the provisioning *)
(* upsert and as the audit insert find it.  psycopg2 is installed or not   *)
(* for the whole process.                                                  *)
EnrollEnvs ==
    {e \in [local : {"off", "ok", "fail"}, s3 : {"off", "ok", "fail"},
            db : DbStates, db_log : DbStates] :
        (e.db = "no_driver") <=> (e.db_log = "no_driver")}

HTTP_201_CREATED == 201
HTTP_204_NO_CONTENT == 204
HTTP_400_BAD_REQUEST == 400
HTTP_413_TOO_LARGE == 413

(* The stores as a request finds and leaves them: the provisioning table,  *)
(* the number of payload copies in the local directory and in S3, and the  *)
(* device_connections rows.                                                *)
Stores(table, held, rows) == [table |-> table, files |-> held, audit |-> rows]

NoFilesHeld == [local |-> 0, s3 |-> 0]

(* A response; ok and stored are None when the body has no such member.    *)
(* wrote: the stores the request wrote to; table, files, audit: the stores *)
(* after it.                                                               *)
EnrollResponse(status_code, ok, error, stored, wrote, st) ==
    [status_code |-> status_code, ok |-> ok, error |-> error, stored |-> stored,
     wrote |-> wrote, table |-> st.table, files |-> st.files, audit |-> st.audit]

Rejected(status_code, error, st) ==
    EnrollResponse(status_code, Some(FALSE), error, None, {}, st)

(* Lines 465-479 of main.enroll, 131-161 of routes.enroll: the checks both *)
(* handlers make before looking at the members; status 0 when they all     *)
(* pass.                                                                   *)
body_checks(req, st) ==
    IF req.method = "OPTIONS"
    THEN EnrollResponse(HTTP_204_NO_CONTENT, None, "", None, {}, st)
    ELSE IF req.body.size = "empty"
    THEN Rejected(HTTP_400_BAD_REQUEST, "Empty body", st)
    ELSE IF req.body.size = "too_large"
    THEN Rejected(HTTP_413_TOO_LARGE, "Body too large", st)
    ELSE IF req.body.json = "invalid"
    THEN Rejected(HTTP_400_BAD_REQUEST, "Body is not valid JSON", st)
    ELSE IF req.body.json # "object"
    THEN Rejected(HTTP_400_BAD_REQUEST, "Body must be a JSON object", st)
    ELSE EnrollResponse(0, None, "", None, {}, st)

(* main._validate_enroll_payload: the members that are not a string or are *)
(* blank.                                                                  *)
_validate_enroll_payload(f) ==
    {k \in {"device_name", "plugin_uuid", "email"} :
        ~IsStr(f[k]) \/ Strip(f[k][1].s) = ""}

(* EnrollRequest.model_validate: device_name a string, non-empty once      *)
(* stripped; plugin_uuid a UUID; email an address.  The members that fail. *)
model_validate(f) ==
    (IF IsStr(f.device_name) /\ Strip(f.device_name[1].s) # "" THEN {} ELSE {"device_name"})
    \cup (IF IsStr(f.plugin_uuid) /\ IsUuid(Strip(f.plugin_uuid[1].s)) THEN {}
          ELSE {"plugin_uuid"})
    \cup (IF IsStr(f.email) /\ IsEmail(Strip(f.email[1].s)) THEN {} ELSE {"email"})

(* Lines 500-524 of main.enroll, 190-198 of routes.enroll: the local file, *)
(* then the S3 object.  A failing write raises the 500 HTTPException at    *)
(* once; nothing written before it is removed.                             *)
store_payload(env, held) ==
    IF env.local = "fail"
    THEN [error |-> "Cannot write local file", stored |-> {}, files |-> held]
    ELSE LET s1 == IF env.local = "ok" THEN {"local"} ELSE {}
             f1 == IF env.local = "ok" THEN [held EXCEPT !.local = @ + 1] ELSE held
         IN  IF env.s3 = "fail"
             THEN [error |-> "Cannot write to S3", stored |-> s1, files |-> f1]
             ELSE IF env.s3 = "ok"
             THEN [error |-> "", stored |-> s1 \cup {"s3"},
                   files |-> [f1 EXCEPT !.s3 = @ + 1]]
             ELSE [error |-> "", stored |-> s1, files |-> f1]

(* The members of the JSON body the identity functions consult; an /enroll *)
(* body of the model has no client_uuid and no encryption_key_fingerprint. *)
BodyObj(f) ==
    [email |-> f.email, client_uuid |-> None, plugin_uuid |-> f.plugin_uuid,
     encryption_key_fingerprint |-> None]

(* main._extract_identity(request, body_obj) *)
_extract_identity(headers, body_obj) ==
    [email |-> Or(headers.x_user_email, Or(body_obj.email, Some(UNKNOWN_EMAIL)))[1],
     client_uuid |->
        Or(headers.x_client_uuid,
           Or(body_obj.client_uuid, Or(body_obj.plugin_uuid, Some(ZERO_UUID))))[1],
     fingerprint |->
        Or(headers.x_encryption_key_fingerprint,
           Or(body_obj.encryption_key_fingerprint, Some(UNKNOWN_FINGERPRINT)))[1]]

(* A device_connections row (connected_at, source_ip and user_agent left   *)
(* out).                                                                   *)
AuditRow(action, email, client_uuid, fingerprint) ==
    [action |-> action, email |-> email, client_uuid |-> client_uuid,
     encryption_key_fingerprint |-> fingerprint]

SKIP_ACTIONS == {"HEALTHZ"}

(* DeviceConnectionRepository.log: True for a skipped action, False        *)
(* without psycopg2 (line 246) and on any exception (line 277), else the   *)
(* INSERT.                                                                 *)
log(rows, row, db) ==
    IF row.action \in SKIP_ACTIONS
    THEN [raised |-> FALSE, ret |-> TRUE, audit |-> rows]
    ELSE IF db = "no_driver"
    THEN [raised |-> FALSE, ret |-> FALSE, audit |-> rows]
    ELSE IF db = "error"
    THEN [raised |-> FALSE, ret |-> FALSE, audit |-> rows]
    ELSE [raised |-> FALSE, ret |-> TRUE, audit |-> Append(rows, row)]

(* main._log_device_connection: returns without psycopg2; a failing        *)
(* connection or INSERT raises.                                            *)
_log_device_connection(rows, row, db) ==
    IF row.action = "HEALTHZ"
    THEN [raised |-> FALSE, audit |-> rows]
    ELSE IF db = "no_driver"
    THEN [raised |-> FALSE, audit |-> rows]
    ELSE IF db = "error"
    THEN [raised |-> TRUE, audit |-> rows]
    ELSE [raised |-> FALSE, audit |-> Append(rows, row)]

(* main._upsert_provisioning: returns without psycopg2; a failing          *)
(* connection or statement (other than 23505) raises; else the INSERT, and *)
(* on 23505 the UPDATE.                                                    *)
_upsert_provisioning(table, client_uuid, v, db, t) ==
    IF db = "no_driver"
    THEN [raised |-> FALSE, table |-> table]
    ELSE IF db = "error"
    THEN [raised |-> TRUE, table |-> table]
    ELSE LET ins == db_insert(table, Row(client_uuid, v.email, v.device_name, "ENROLLED",
                                         v.encryption_key, "enroll", t))
         IN  IF ins.pgcode = ""
             THEN [raised |-> FALSE, table |-> ins.table]
             ELSE [raised |-> FALSE,
                   table |-> db_update_enrolled(table, client_uuid, v, t,
                                                {"PENDING", "ENROLLED"}).table]

(* fingerprint if fingerprint and fingerprint != "unknown" else "unknown" *)
encryption_key_of(fingerprint) ==
    IF fingerprint # "" /\ fingerprint # "unknown" THEN fingerprint ELSE "unknown"

(* Lines 526-549 of main.enroll with the audit insert outside any try. *)
record_enrollment_main_unguarded(req, env, st, t) ==
    LET f == req.body.fields
        id == _extract_identity(req.headers, BodyObj(f))
        plugin_uuid == Strip(py_str(f.plugin_uuid[1]).s)
        client_uuid == IF plugin_uuid # "" THEN plugin_uuid ELSE id.client_uuid.s
        u == _upsert_provisioning(st.table, client_uuid,
                 [email |-> id.email.s,
                  device_name |-> Strip(py_str(f.device_name[1]).s),
                  encryption_key |-> encryption_key_of(id.fingerprint.s)], env.db, t)
        l == _log_device_connection(st.audit,
                 AuditRow("ENROLL", id.email.s, client_uuid, id.fingerprint.s),
                 env.db_log)
    IN  [raised |-> l.raised, st |-> Stores(u.table, st.files, l.audit)]

(* Lines 526-549 of main.enroll: the identity, the provisioning upsert in  *)
(* its own try, the audit insert, all inside a try that logs and swallows  *)
(* every Exception.                                                        *)
record_enrollment_main(req, env, st, t) ==
    LET f == req.body.fields
        id == _extract_identity(req.headers, BodyObj(f))
        plugin_uuid == Strip(py_str(f.plugin_uuid[1]).s)
        client_uuid == IF plugin_uuid # "" THEN plugin_uuid ELSE id.client_uuid.s
        u == _upsert_provisioning(st.table, client_uuid,
                 [email |-> id.email.s,
                  device_name |-> Strip(py_str(f.device_name[1]).s),
                  encryption_key |-> encryption_key_of(id.fingerprint.s)], env.db, t)
        l == _log_device_connection(st.audit,
                 AuditRow("ENROLL", id.email.s, client_uuid, id.fingerprint.s),
                 env.db_log)
    IN  [raised |-> FALSE, st |-> Stores(u.table, st.files, l.audit)]

(* Lines 200-236 of routes.enroll: the identity, then client_uuid and      *)
(* email taken from the validated payload, the provisioning upsert and the *)
(* audit insert, inside a try that logs and swallows every Exception.  An  *)
(* upsert that raised would skip the audit insert.                         *)
record_enrollment_routes(req, user, env, st, t) ==
    LET f == req.body.fields
        id == extract_identity_from_request(req.headers, user, Some(BodyObj(f)))
        client_uuid == Strip(f.plugin_uuid[1].s)
        email == Strip(f.email[1].s)
        u == upsert(st.table, client_uuid,
                 [email |-> email,
                  device_name |-> Lower(Strip(f.device_name[1].s)),
                  encryption_key |-> encryption_key_of(id.fingerprint.s)], env.db, t)
        l == log(st.audit, AuditRow("ENROLL", email, client_uuid, id.fingerprint.s),
                 env.db_log)
    IN  [raised |-> FALSE, st |-> Stores(u.table, st.files, l.audit)]

(* The stores a request changed. *)
Wrote(pre, post) ==
    (IF post.files.local # pre.files.local THEN {"local"} ELSE {})
    \cup (IF post.files.s3 # pre.files.s3 THEN {"s3"} ELSE {})
    \cup (IF post.table # pre.table THEN {"provisioning"} ELSE {})
    \cup (IF post.audit # pre.audit THEN {"connection_log"} ELSE {})

(* The storing part of both handlers: the payload copies (a failure is a   *)
(* 500 HTTPException, whose body has no ok member), the recording, 201.    *)
(* An exception leaving the recording would surface as 500.                *)
store_and_record(store, rec, pre) ==
    IF store.error # ""
    THEN LET post == Stores(pre.table, store.files, pre.audit) IN
         EnrollResponse(HTTP_500_INTERNAL_SERVER_ERROR, None, store.error, None,
                        Wrote(pre, post), post)
    ELSE IF rec.raised
    THEN EnrollResponse(HTTP_500_INTERNAL_SERVER_ERROR, None, "Internal Server Error",
                        None, Wrote(pre, rec.st), rec.st)
    ELSE EnrollResponse(HTTP_201_CREATED, Some(TRUE), "", Some(store.stored),
                        Wrote(pre, rec.st), rec.st)

(* enroll that stores the payload before it looks at the members. *)
enroll_main_stores_first(req, env, st, t) ==
    LET c == body_checks(req, st)
        f == req.body.fields
        store == store_payload(env, st.files)
        held == Stores(st.table, store.files, st.audit)
    IN  IF c.status_code # 0 THEN c
        ELSE IF store.error # ""
        THEN store_and_record(store, [raised |-> FALSE, st |-> held], st)
        ELSE IF _validate_enroll_payload(f) # {}
        THEN EnrollResponse(HTTP_400_BAD_REQUEST, Some(FALSE), "Missing required fields",
                            None, Wrote(st, held), held)
        ELSE store_and_record(store, record_enrollment_main(req, env, held, t), st)

(* app.main.enroll *)
enroll_main(req, env, st, t) ==
    LET c == body_checks(req, st)
        f == req.body.fields
    IN  IF c.status_code # 0 THEN c
        ELSE IF _validate_enroll_payload(f) # {}
        THEN Rejected(HTTP_400_BAD_REQUEST, "Missing required fields", st)
        ELSE LET store == store_payload(env, st.files) IN
             store_and_record(store,
                 record_enrollment_main(req, env,
                     Stores(st.table, store.files, st.audit), t),
                 st)

(* app.routes.enroll.enroll; auth is what its dependency                   *)
(* get_current_user_optional did: a dependency that raises (the verifier   *)
(* cannot fetch the keys) ends the request with 500 before the handler;    *)
(* else user is what it returned.                                          *)
enroll_routes(req, auth, user, env, st, t) ==
    LET c == body_checks(req, st)
        f == req.body.fields
    IN  IF auth = "raised"
        THEN EnrollResponse(HTTP_500_INTERNAL_SERVER_ERROR, None, "Internal Server Error",
                            None, {}, st)
        ELSE IF c.status_code # 0 THEN c
        ELSE IF model_validate(f) # {}
        THEN Rejected(HTTP_400_BAD_REQUEST, "Invalid request payload", st)
        ELSE LET store == store_payload(env, st.files) IN
             store_and_record(store,
                 record_enrollment_routes(req, user, env,
                     Stores(st.table, store.files, st.audit), t),
                 st)

----------------------------------------------------------------------------
(* GET /config/config.json and GET /binaries/{path}: the handlers of       *)
(* app/main.py and of the routers.  Both record the access in              *)
(* device_connections under a fixed identity.                              *)

PROFILE_ALLOWLIST == {"dev", "prod", "int", "llama", "gptoss"}
DEVICE_ALLOWLIST == {"matisse", "libreoffice", "chrome", "edge", "firefox", "misc"}

(* os.getenv("DM_CONFIG_PROFILE", "prod") with the variable unset. *)
DM_CONFIG_PROFILE == "prod"

HTTP_302_FOUND == 302
HTTP_404_NOT_FOUND == 404

ConfigRequests ==
    [profile : {None, Some("dev"), Some("bogus")},
     device : {None, Some("  MATISSE  "), Some("bogus")},
     headers : EnrollHeaders]

(* template: whether a config template file exists. *)
ConfigEnvs == [template : {"found", "missing"}, db_log : DbStates]

(* bucket: DM_S3_BUCKET is set; mode: DM_BINARIES_MODE; s3: whether the    *)
(* S3 call succeeds.                                                       *)
BinaryRequests == [headers : EnrollHeaders]
BinaryEnvs ==
    [bucket : BOOLEAN, mode : {"presign", "proxy", "other"}, s3 : {"ok", "fail"},
     db_log : DbStates]

(* The identity the config and binaries handlers log. *)
SystemRow(action) ==
    AuditRow(action, "system@local", "00000000-0000-0000-0000-000000000000", "none")

AccessResponse(status_code, rows) == [status_code |-> status_code, audit |-> rows]

(* main.get_config(profile, device) *)
get_config_main(req, env, rows) ==
    LET prof == Lower(Strip(IF req.profile = None THEN DM_CONFIG_PROFILE
                            ELSE req.profile[1]))
        dev == Lower(Strip(IF req.device = None THEN "" ELSE req.device[1]))
    IN  IF prof \notin PROFILE_ALLOWLIST
        THEN AccessResponse(HTTP_400_BAD_REQUEST, rows)
        ELSE IF dev # "" /\ dev \notin DEVICE_ALLOWLIST
        THEN AccessResponse(HTTP_400_BAD_REQUEST, rows)
        ELSE IF env.template = "missing"
        THEN AccessResponse(HTTP_500_INTERNAL_SERVER_ERROR, rows)
        ELSE LET l == _log_device_connection(rows, SystemRow("CONFIG_GET"), env.db_log)
             IN  AccessResponse(HTTP_200_OK, l.audit)

(* routes.config._get_config_response(profile, device) *)
_get_config_response(req, env, rows) ==
    LET prof == Lower(Strip(IF req.profile = None THEN DM_CONFIG_PROFILE
                            ELSE req.profile[1]))
        dev == Lower(Strip(IF req.device = None THEN "" ELSE req.device[1]))
    IN  IF prof \notin PROFILE_ALLOWLIST
        THEN AccessResponse(HTTP_400_BAD_REQUEST, rows)
        ELSE IF dev # "" /\ dev \notin DEVICE_ALLOWLIST
        THEN AccessResponse(HTTP_400_BAD_REQUEST, rows)
        ELSE IF env.template = "missing"
        THEN AccessResponse(HTTP_500_INTERNAL_SERVER_ERROR, rows)
        ELSE LET l == log(rows, SystemRow("CONFIG_GET"), env.db_log)
             IN  AccessResponse(HTTP_200_OK, l.audit)

(* main.get_binary(path): the audit insert follows the S3 call and sits in *)
(* its own try.                                                            *)
get_binary_main(env, rows) ==
    IF ~env.bucket
    THEN AccessResponse(HTTP_500_INTERNAL_SERVER_ERROR, rows)
    ELSE IF env.mode \notin {"presign", "proxy"}
    THEN AccessResponse(HTTP_500_INTERNAL_SERVER_ERROR, rows)
    ELSE IF env.s3 = "fail"
    THEN AccessResponse(HTTP_404_NOT_FOUND, rows)
    ELSE LET l == _log_device_connection(rows, SystemRow("BINARY_GET"), env.db_log)
         IN  AccessResponse(IF env.mode = "presign" THEN HTTP_302_FOUND ELSE HTTP_200_OK,
                            l.audit)

(* routes.binaries.get_binary(path), with _serve_presigned, _serve_proxy   *)
(* and _log_binary_access.                                                 *)
get_binary_routes(env, rows) ==
    IF ~env.bucket
    THEN AccessResponse(HTTP_500_INTERNAL_SERVER_ERROR, rows)
    ELSE IF env.mode \notin {"presign", "proxy"}
    THEN AccessResponse(HTTP_500_INTERNAL_SERVER_ERROR, rows)
    ELSE IF env.s3 = "fail"
    THEN AccessResponse(HTTP_404_NOT_FOUND, rows)
    ELSE LET l == log(rows, SystemRow("BINARY_GET"), env.db_log)
         IN  AccessResponse(IF env.mode = "presign" THEN HTTP_302_FOUND ELSE HTTP_200_OK,
                            l.audit)

----------------------------------------------------------------------------
(* The state machine of the business endpoints.  `result` is the request   *)
(* that was just answered: the handler, the request, the environment, the  *)
(* stores before it (pre, pre_files, pre_audit) and the response.          *)

MaxRows == 1

(* What the stores hold. *)
StoredItems == Cardinality(provisioning) + files.local + files.s3 + Len(audit)

CurrentStores == Stores(provisioning, files, audit)

InitEnroll ==
    /\ config = JWTConfig(Some(IssuerUrl), TRUE, TRUE)
    /\ keys = None
    /\ fetched_at = None
    /\ now = 0
    /\ last = NoCall
    /\ threads = NoThreads
    /\ result = NoResult
    /\ provisioning = {}
    /\ files = NoFilesHeld
    /\ audit = <<>>

Answered(op, handler, req, env, auth, user, resp) ==
    [op |-> op, handler |-> handler, req |-> req, env |-> env, auth |-> auth,
     user |-> user, pre |-> provisioning, pre_files |-> files, pre_audit |-> audit,
     resp |-> resp]

(* /enroll served by app.main:app, which authenticates nobody. *)
EnrollMain ==
    /\ result.op = "none"
    /\ StoredItems < MaxRows
    /\ \E req \in EnrollRequests, env \in EnrollEnvs :
         LET r == enroll_main(req, env, CurrentStores, now) IN
         /\ provisioning' = r.table
         /\ files' = r.files
         /\ audit' = r.audit
         /\ result' = Answered("enroll", "main", req, env, "none", None, r)
    /\ UNCHANGED <<config, keys, fetched_at, now, last, threads>>

(* /enroll served by the router of app.routes. *)
EnrollRoutes ==
    /\ result.op = "none"
    /\ StoredItems < MaxRows
    /\ \E req \in EnrollRequests, env \in EnrollEnvs,
          a \in {<<"raised", None>>} \cup {<<"returned", u>> : u \in EnrollUsers} :
         LET r == enroll_routes(req, a[1], a[2], env, CurrentStores, now) IN
         /\ provisioning' = r.table
         /\ files' = r.files
         /\ audit' = r.audit
         /\ result' = Answered("enroll", "routes", req, env, a[1], a[2], r)
    /\ UNCHANGED <<config, keys, fetched_at, now, last, threads>>

(* GET /config/config.json served by app.main:app. *)
ConfigMain ==
    /\ result.op = "none"
    /\ StoredItems < MaxRows
    /\ \E req \in ConfigRequests, env \in ConfigEnvs :
         LET r == get_config_main(req, env, audit) IN
         /\ audit' = r.audit
         /\ result' = Answered("config", "main", req, env, "none", None, r)
    /\ UNCHANGED <<config, keys, fetched_at, now, last, threads, provisioning, files>>

(* GET /config/config.json served by the router. *)
ConfigRoutes ==
    /\ result.op = "none"
    /\ StoredItems < MaxRows
    /\ \E req \in ConfigRequests, env \in ConfigEnvs :
         LET r == _get_config_response(req, env, audit) IN
         /\ audit' = r.audit
         /\ result' = Answered("config", "routes", req, env, "none", None, r)
    /\ UNCHANGED <<config, keys, fetched_at, now, last, threads, provisioning, files>>

(* GET /binaries/{path} served by app.main:app. *)
BinaryMain ==
    /\ result.op = "none"
    /\ StoredItems < MaxRows
    /\ \E req \in BinaryRequests, env \in BinaryEnvs :
         LET r == get_binary_main(env, audit) IN
         /\ audit' = r.audit
         /\ result' = Answered("binary", "main", req, env, "none", None, r)
    /\ UNCHANGED <<config, keys, fetched_at, now, last, threads, provisioning, files>>

(* GET /binaries/{path} served by the router. *)
BinaryRoutes ==
    /\ result.op = "none"
    /\ StoredItems < MaxRows
    /\ \E req \in BinaryRequests, env \in BinaryEnvs :
         LET r == get_binary_routes(env, audit) IN
         /\ audit' = r.audit
         /\ result' = Answered("binary", "routes", req, env, "none", None, r)
    /\ UNCHANGED <<config, keys, fetched_at, now, last, threads, provisioning, files>>

(* The response has been sent. *)
EnrollSent ==
    /\ result.op # "none"
    /\ result' = NoResult
    /\ UNCHANGED <<config, keys, fetched_at, now, last, threads, provisioning, files, audit>>

NextEnroll ==
    \/ EnrollMain
    \/ EnrollRoutes
    \/ ConfigMain
    \/ ConfigRoutes
    \/ BinaryMain
    \/ BinaryRoutes
    \/ EnrollSent

SpecEnroll == InitEnroll /\ [][NextEnroll]_vars

----------------------------------------------------------------------------
(* C20: POST or PUT /enroll validates before it stores anything and        *)
(* answers by the first failing check: empty body 400 "Empty body"; body   *)
(* above the maximum 413; invalid JSON 400; JSON that is not an object     *)
(* 400; device_name missing or blank, plugin_uuid not a UUID, or email not *)
(* an address 400.  Every rejection has ok = false and has stored nothing, *)
(* and only a payload passing all checks gets 201 with ok = true and a     *)
(* stored map.  Stated for requests whose handler was entered.             *)

(* The members as the claim requires them. *)
MembersValid(f) ==
    /\ IsStr(f.device_name) /\ Strip(f.device_name[1].s) # ""
    /\ IsStr(f.plugin_uuid) /\ f.plugin_uuid[1].s = "b9bdf6ad-3b1f-4f1a-9f07-4f8606c3fe5a"
    /\ IsStr(f.email) /\ f.email[1].s = "user@example.com"

C20_EnrollValidatesBeforeStoring ==
    (result.op = "enroll" /\ result.req.method \in {"POST", "PUT"}
        /\ result.auth # "raised") =>
        LET b == result.req.body
            resp == result.resp
            passes == b.size = "ok" /\ b.json = "object" /\ MembersValid(b.fields)
        IN
        /\ b.size = "empty" => (resp.status_code = 400 /\ resp.error = "Empty body")
        /\ b.size = "too_large" => resp.status_code = 413
        /\ (b.size = "ok" /\ b.json # "object") => resp.status_code = 400
        /\ (b.size = "ok" /\ b.json = "object" /\ ~MembersValid(b.fields)) =>
               resp.status_code = 400
        /\ ~passes =>
               /\ resp.ok = Some(FALSE)
               /\ resp.wrote = {}
               /\ provisioning = result.pre
        /\ resp.status_code = 201 =>
               /\ passes
               /\ resp.ok = Some(TRUE)
               /\ resp.stored # None

----------------------------------------------------------------------------
(* C21: decode_token parses the token header as its first step, before     *)
(* any key lookup: with KEYCLOAK_ISSUER_URL configured, a token that does  *)
(* not parse ends the call with the malformed-token error (401), the key   *)
(* cache untouched and no JWKS fetch made, whatever the cache holds and    *)
(* whatever the JWKS endpoint answers.                                     *)
C21_MalformedTokenFailsBeforeKeyLookup ==
    (Decoded /\ Configured /\ ~Token.wf) =>
        /\ last.dec.exc = "HTTPException"
        /\ last.dec.status = 401
        /\ last.dec.kind = "malformed"
        /\ last.dec.fetch_log = <<>>
        /\ Cache = last.pre

----------------------------------------------------------------------------
(* Vocabulary: the business request that was just answered. *)

Answering(op) == result.op = op

(* The identity the Identity Resolver produces for the request: from the   *)
(* authenticated identity, the headers and (for /enroll) the body.         *)
Resolved ==
    extract_identity_from_request(
        result.req.headers, result.user,
        IF Answering("enroll") /\ result.req.body.json = "object"
        THEN Some(BodyObj(result.req.body.fields)) ELSE None)

(* The provisioning rows the request inserted or changed, and the          *)
(* positions of the audit rows it appended.                                *)
WrittenRows == provisioning \ result.pre
AppendedAudit == (Len(result.pre_audit) + 1) .. Len(audit)

----------------------------------------------------------------------------
(* C22: the email, client identifier and key fingerprint a business        *)
(* endpoint persists (provisioning record, connection-audit row) are the   *)
(* ones the Identity Resolver produces for that request; in particular an  *)
(* enrollment by an authenticated caller whose identity has an email       *)
(* persists that email, not the email of the body.                         *)
C22_PersistedIdentityIsTheResolvedOne ==
    (Answering("enroll") \/ Answering("config") \/ Answering("binary")) =>
        /\ \A r \in WrittenRows :
              /\ r.email = Resolved.email.s
              /\ r.client_uuid = Resolved.client_uuid.s
        /\ \A n \in AppendedAudit :
              /\ audit[n].email = Resolved.email.s
              /\ audit[n].client_uuid = Resolved.client_uuid.s
              /\ audit[n].encryption_key_fingerprint = Resolved.fingerprint.s
        /\ (Answering("enroll") /\ result.user # None /\ Truthy(result.user[1].email)) =>
              /\ \A r \in WrittenRows : r.email = result.user[1].email[1].s
              /\ \A n \in AppendedAudit : audit[n].email = result.user[1].email[1].s

----------------------------------------------------------------------------
(* C23: database writes are best effort and never change an HTTP response. *)
(* Once the payload is valid and every enabled storage backend has stored  *)
(* it, /enroll answers 201 (ok, with the stored map) whether the           *)
(* provisioning upsert and the audit insert succeed, return False or       *)
(* raise; and the status of a config or binaries response is decided by    *)
(* the request, the template and S3 alone, whatever the audit insert does. *)
C23_DatabaseWritesNeverChangeTheResponse ==
    /\ (Answering("enroll") /\ result.req.method \in {"POST", "PUT"}
            /\ result.auth # "raised"
            /\ result.req.body.size = "ok" /\ result.req.body.json = "object"
            /\ MembersValid(result.req.body.fields)
            /\ result.env.local # "fail" /\ result.env.s3 # "fail") =>
          /\ result.resp.status_code = 201
          /\ result.resp.ok = Some(TRUE)
          /\ result.resp.stored =
                Some({x \in {"local", "s3"} : result.env[x] = "ok"})
    /\ Answering("config") =>
          result.resp.status_code =
              IF result.req.profile = Some("bogus") \/ result.req.device = Some("bogus")
              THEN 400
              ELSE IF result.env.template = "missing" THEN 500 ELSE 200
    /\ Answering("binary") =>
          result.resp.status_code =
              IF ~result.env.bucket \/ result.env.mode = "other" THEN 500
              ELSE IF result.env.s3 = "fail" THEN 404
              ELSE IF result.env.mode = "presign" THEN 302 ELSE 200

(* The served application stored a valid payload locally and in S3 while   *)
(* the upsert and the audit insert both raised: it answered 201 and the    *)
(* tables are as they were.                                                *)
C23_Witness ==
    /\ Answering("enroll")
    /\ result.handler = "main"
    /\ MembersValid(result.req.body.fields)
    /\ result.env = [local |-> "ok", s3 |-> "ok", db |-> "error", db_log |-> "error"]
    /\ result.resp.status_code = 201
    /\ result.resp.stored = Some({"local", "s3"})
    /\ provisioning = result.pre
    /\ audit = result.pre_audit

----------------------------------------------------------------------------
(* wait_for_database (app/db/connection.py) and _wait_for_db (app/main.py), *)
(* statement by statement.  `result` is the frame of the call: its         *)
(* arguments, deadline, last_exc, the statement it is at (pc), the number  *)
(* of connection attempts made and whether one succeeded.  `now` is        *)
(* time.time(); a connection attempt takes 0 or 1 seconds.                 *)

MaxTimeout == 2     \* timeout_seconds ranges over 0..MaxTimeout
MaxInterval == 1    \* interval_seconds ranges over 0..MaxInterval
MaxAttempts == 3    \* connection attempts followed within one call

WaitFunctions == {"wait_for_database", "_wait_for_db"}

InitWait ==
    /\ config = JWTConfig(Some(IssuerUrl), TRUE, TRUE)
    /\ keys = None
    /\ fetched_at = None
    /\ now = 0
    /\ last = NoCall
    /\ threads = NoThreads
    /\ result = NoResult
    /\ provisioning = NoProvisioning
    /\ files = NoFiles
    /\ audit = NoAudit

WaitAt(pc) == result.op = "wait" /\ result.pc = pc

(* The call: RuntimeError without psycopg2 and, in wait_for_database,      *)
(* without a database URL; else deadline = time.time() + timeout_seconds   *)
(* and last_exc = None.                                                    *)
WaitCall ==
    /\ result.op = "none"
    /\ now < MaxTime
    /\ \E fn \in WaitFunctions, timeout_seconds \in 0..MaxTimeout,
          interval_seconds \in 0..MaxInterval, driver \in BOOLEAN, url \in BOOLEAN :
         LET fails == ~driver \/ (fn = "wait_for_database" /\ ~url) IN
         result' = [op |-> "wait", fn |-> fn, timeout_seconds |-> timeout_seconds,
                    interval_seconds |-> interval_seconds,
                    deadline |-> now + timeout_seconds, last_exc |-> None,
                    pc |-> IF fails THEN "raised" ELSE "while",
                    exc |-> IF fails THEN "RuntimeError" ELSE "none",
                    attempts |-> 0, connected |-> FALSE]
    /\ UNCHANGED <<config, keys, fetched_at, now, last, threads, provisioning, files, audit>>

(* while time.time() < deadline *)
WaitTest ==
    /\ WaitAt("while")
    /\ result' = [result EXCEPT !.pc = IF now < result.deadline THEN "connect" ELSE "after"]
    /\ UNCHANGED <<config, keys, fetched_at, now, last, threads, provisioning, files, audit>>

(* psycopg2.connect(url); conn.close(); return *)
WaitConnects ==
    /\ WaitAt("connect")
    /\ result.attempts < MaxAttempts
    /\ \E d \in {0, 1} : now' = now + d
    /\ result' = [result EXCEPT !.pc = "returned", !.attempts = @ + 1, !.connected = TRUE]
    /\ UNCHANGED <<config, keys, fetched_at, last, threads, provisioning, files, audit>>

(* psycopg2.connect raises OperationalError: last_exc = exc *)
WaitConnectFails ==
    /\ WaitAt("connect")
    /\ result.attempts < MaxAttempts
    /\ \E d \in {0, 1} : now' = now + d
    /\ result' = [result EXCEPT !.pc = "sleep", !.attempts = @ + 1,
                                !.last_exc = Some("OperationalError")]
    /\ UNCHANGED <<config, keys, fetched_at, last, threads, provisioning, files, audit>>

(* time.sleep(interval_seconds) *)
WaitSleeps ==
    /\ WaitAt("sleep")
    /\ now' = now + result.interval_seconds
    /\ result' = [result EXCEPT !.pc = "while"]
    /\ UNCHANGED <<config, keys, fetched_at, last, threads, provisioning, files, audit>>

(* if last_exc: raise last_exc -- else the function ends and returns None *)
WaitAfterLoop ==
    /\ WaitAt("after")
    /\ result' = IF result.last_exc # None
                 THEN [result EXCEPT !.pc = "raised", !.exc = result.last_exc[1]]
                 ELSE [result EXCEPT !.pc = "returned"]
    /\ UNCHANGED <<config, keys, fetched_at, now, last, threads, provisioning, files, audit>>

(* The caller goes on. *)
WaitDone ==
    /\ result.op = "wait"
    /\ result.pc \in {"returned", "raised"}
    /\ result' = NoResult
    /\ UNCHANGED <<config, keys, fetched_at, now, last, threads, provisioning, files, audit>>

NextWait ==
    \/ WaitCall
    \/ WaitTest
    \/ WaitConnects
    \/ WaitConnectFails
    \/ WaitSleeps
    \/ WaitAfterLoop
    \/ WaitDone

SpecWait == InitWait /\ [][NextWait]_vars

----------------------------------------------------------------------------
(* C24: wait_for_database returns normally only after a connection attempt *)
(* has succeeded, and raises the last OperationalError when the database   *)
(* stayed unavailable until the deadline, for every timeout_seconds and    *)
(* interval_seconds, a timeout of 0 included.  (Its loop ends: every       *)
(* iteration either returns or lets the clock approach the deadline.)      *)
C24_WaitReturnsOnlyAfterConnecting ==
    /\ WaitAt("returned") => (result.connected /\ result.attempts > 0)
    /\ (WaitAt("raised") /\ result.exc = "OperationalError") =>
          /\ ~result.connected
          /\ result.attempts > 0
          /\ now >= result.deadline

----------------------------------------------------------------------------
(* The remote JWKS fetches of successive decode_token calls.  `result` is  *)
(* the call that just returned (its token, the cache before it, what it    *)
(* did) together with the time and the success of the latest remote fetch  *)
(* made by a call whose token named a key the identity provider publishes  *)
(* in every document: before the call (prev_fetch, prev_ok) and after it   *)
(* (last_fetch, last_ok).                                                  *)

NoDecode == [op |-> "none", last_fetch |-> None, last_ok |-> FALSE]

(* The kid is in every JWKS document the identity provider serves. *)
Published(kid) ==
    \A d \in JwksDocs : \E n \in 1..Len(d) : d[n].kid = kid

InitFetches ==
    /\ config = JWTConfig(Some(IssuerUrl), TRUE, TRUE)
    /\ keys = None
    /\ fetched_at = None
    /\ now = 0
    /\ last = NoCall
    /\ threads = NoThreads
    /\ result = NoDecode
    /\ provisioning = NoProvisioning
    /\ files = NoFiles
    /\ audit = NoAudit

(* decode_token(token) *)
DecodeCall ==
    /\ result.op = "none"
    /\ \E token \in Tokens, r1 \in FetchOutcomes, r2 \in FetchOutcomes :
         LET o == decode_token(token, config, Cache, now, r1, r2)
             counted == token.wf /\ Published(token.kid) /\ o.fetch_log # <<>>
         IN
         /\ keys' = o.cache.keys
         /\ fetched_at' = o.cache.fetched_at
         /\ result' = [op |-> "decode", token |-> token, t |-> now, pre |-> Cache,
                       out |-> o,
                       prev_fetch |-> result.last_fetch, prev_ok |-> result.last_ok,
                       last_fetch |-> IF counted THEN Some(now) ELSE result.last_fetch,
                       last_ok |-> IF counted THEN o.fetch_log[Len(o.fetch_log)]
                                   ELSE result.last_ok]
    /\ UNCHANGED <<config, now, last, threads, provisioning, files, audit>>

(* The caller has taken the claims or the exception. *)
DecodeReturn ==
    /\ result.op = "decode"
    /\ result' = [op |-> "none", last_fetch |-> result.last_fetch,
                  last_ok |-> result.last_ok]
    /\ UNCHANGED <<config, keys, fetched_at, now, last, threads, provisioning, files, audit>>

FetchesTick ==
    /\ result.op = "none"
    /\ now < MaxTime
    /\ now' = now + 1
    /\ UNCHANGED <<config, keys, fetched_at, last, threads, result, provisioning, files, audit>>

NextFetches ==
    \/ DecodeCall
    \/ DecodeReturn
    \/ FetchesTick

SpecFetches == InitFetches /\ [][NextFetches]_vars

----------------------------------------------------------------------------
(* Vocabulary: the decode_token call that just returned. *)

DecodeDone == result.op = "decode"

(* The cache was populated and younger than the TTL when the call began. *)
FreshBefore ==
    /\ result.pre.keys # None
    /\ result.pre.fetched_at # None
    /\ result.t - result.pre.fetched_at[1] < TTL

(* The token parses and its kid is in the key set cached before the call. *)
KidWasCached ==
    /\ result.token.wf
    /\ result.pre.keys # None
    /\ HasKid(result.pre.keys[1], result.token.kid)

(* The call's token names a published key and the call fetched remotely. *)
PublishedKidFetched ==
    /\ result.token.wf
    /\ Published(result.token.kid)
    /\ result.out.fetch_log # <<>>

----------------------------------------------------------------------------
(* C25 as stated: one decode_token call makes at most two remote JWKS      *)
(* fetches, and none when the token's kid is in a cached key set younger   *)
(* than the TTL; consequently requests whose tokens name a known kid cause *)
(* at most one remote fetch per TTL window: two such fetches are at least  *)
(* a TTL apart.                                                            *)
C25_AtMostOneFetchPerTtlWindow ==
    DecodeDone =>
        /\ Len(result.out.fetch_log) <= 2
        /\ (FreshBefore /\ KidWasCached) => result.out.fetch_log = <<>>
        /\ (PublishedKidFetched /\ result.prev_fetch # None) =>
              result.t - result.prev_fetch[1] >= TTL

(* C25 amended: at most two fetches per call, none when the kid is in a    *)
(* cached set younger than the TTL, and exactly one for a token naming a   *)
(* published kid when the cache is empty or has reached the TTL.  Such a   *)
(* request fetches again inside the TTL window of an earlier one only when *)
(* that fetch failed or the cache has been emptied since.                  *)
C25_FetchesOnlyWhenCacheCannotServe ==
    DecodeDone =>
        /\ Len(result.out.fetch_log) <= 2
        /\ (FreshBefore /\ KidWasCached) => result.out.fetch_log = <<>>
        /\ (result.token.wf /\ Published(result.token.kid) /\ ~FreshBefore) =>
              Len(result.out.fetch_log) = 1
        /\ (PublishedKidFetched /\ result.prev_fetch # None
                /\ result.t - result.prev_fetch[1] < TTL) =>
              (~result.prev_ok \/ result.pre.keys = None)

(* The endpoint failed for a request naming a published kid, and the next  *)
(* such request, in the same second, fetched again.                        *)
C25_Witness ==
    /\ DecodeDone
    /\ PublishedKidFetched
    /\ result.prev_fetch = Some(result.t)
    /\ ~result.prev_ok
    /\ Len(result.out.fetch_log) = 1

----------------------------------------------------------------------------
(* C26: a decode_token call that fails leaves the shared key cache either  *)
(* unchanged or wholly replaced by a key set fetched during the call       *)
(* (stamped with the time of the call); a cache that was populated before  *)
(* the call is never empty after it, whatever the token and whatever the   *)
(* JWKS endpoint answered.                                                 *)
C26_FailedDecodeKeepsOrReplacesTheCache ==
    (Decoded /\ last.dec.exc # "none") =>
        /\ \/ Cache = last.pre
           \/ /\ keys # None
              /\ keys[1] \in JwksDocs
              /\ fetched_at = Some(now)
              /\ TRUE \in {last.dec.fetch_log[n] : n \in 1..Len(last.dec.fetch_log)}
        /\ last.pre.keys # None => keys # None

----------------------------------------------------------------------------
(* Vocabulary: the repository call that just returned was made for a       *)
(* client whose record was REVOKED.                                        *)

RepoCallDone == result.op \in {"upsert", "revoke", "get"}

OnRevoked == \E r \in PreRows : r.status = "REVOKED"

(* C27: REVOKED is terminal.  An upsert or a revoke made for a client      *)
(* whose record is REVOKED returns False and leaves the table, that record *)
(* included, exactly as it was; get_by_client_uuid returns None for such a *)
(* client.  A REVOKED record therefore keeps its status, email,            *)
(* device_name and encryption_key through any sequence of calls.           *)
C27_RevokedIsTerminal ==
    (RepoCallDone /\ OnRevoked) =>
        /\ provisioning = result.pre
        /\ \A r \in PostRows : r.status = "REVOKED"
        /\ result.op \in {"upsert", "revoke"} => ~result.ret
        /\ result.op = "get" => result.got = None

(* A record that the application revoked at a later time than it was       *)
(* written is still REVOKED, with the fields it had, after an upsert for   *)
(* its client reached the database and returned False.                     *)
C27_Witness ==
    /\ result.op = "upsert"
    /\ result.db = "ok"
    /\ ~result.ret
    /\ \E r \in PreRows : r.status = "REVOKED" /\ r.updated_at > 0
    /\ provisioning = result.pre

----------------------------------------------------------------------------
(* Vocabulary: the stores are as the request found them. *)

StoresUntouched ==
    /\ provisioning = result.pre
    /\ files = result.pre_files
    /\ audit = result.pre_audit

(* C28: an /enroll request answered with 400 or 413 has written no local   *)
(* file, no S3 object, no provisioning record and no connection-audit row. *)
C28_RejectedEnrollWritesNothing ==
    (Answering("enroll") /\ result.resp.status_code \in {400, 413}) =>
        /\ StoresUntouched
        /\ result.resp.wrote = {}

(* The served application rejected, with 400, an object whose members are  *)
(* not all valid, while both stores and the database were working and      *)
(* would have taken the payload; the stores are as they were.              *)
C28_Witness ==
    /\ Answering("enroll")
    /\ result.handler = "main"
    /\ result.req.method = "POST"
    /\ result.req.body.size = "ok"
    /\ result.req.body.json = "object"
    /\ result.req.body.fields.device_name = Some(JStr("   "))
    /\ result.env = [local |-> "ok", s3 |-> "ok", db |-> "ok", db_log |-> "ok"]
    /\ result.resp.status_code = 400
    /\ StoresUntouched

----------------------------------------------------------------------------
(* C29: an /enroll request that ends in a storage error (500) leaves no    *)
(* trace: when a storage write fails no provisioning record and no audit   *)
(* row is written and no copy of the payload remains, the local file       *)
(* written before a failing S3 write included.                             *)
C29_StorageErrorLeavesNoTrace ==
    (Answering("enroll") /\ result.resp.status_code = 500
        /\ result.auth # "raised"
        /\ (result.env.local = "fail" \/ result.env.s3 = "fail")) =>
        /\ provisioning = result.pre
        /\ audit = result.pre_audit
        /\ files = result.pre_files

----------------------------------------------------------------------------
(* The connection pool of app/db/connection.py, statement by statement.    *)
(* `result` holds the module's global _connection_pool (0 for None, else   *)
(* the identity of a ThreadedConnectionPool), the number of pools made,    *)
(* the pools on which closeall() ran, and whether a close_pool() call is   *)
(* between its closeall() and its assignment.  `threads` holds, for each   *)
(* thread, the frame of its `with get_connection()`: the statement it is   *)
(* at, the kind of connection handed out and the pool it came from, how    *)
(* the with-block ended, how often the context manager released the        *)
(* connection, the pool it went back to, whether it was closed, and the    *)
(* exception leaving the context manager.  psycopg2 is installed and       *)
(* DATABASE_URL is set.                                                    *)

MaxPools == 2    \* pools made by init_pool during one run

PoolThreads == 1..NumThreads

NoFrame ==
    [pc |-> "idle", kind |-> "none", from |-> 0, body |-> "none", released |-> 0,
     returned_to |-> 0, closed |-> FALSE, exc |-> "none"]

InitConnections ==
    /\ config = JWTConfig(Some(IssuerUrl), TRUE, TRUE)
    /\ keys = None
    /\ fetched_at = None
    /\ now = 0
    /\ last = NoCall
    /\ threads = [th \in PoolThreads |-> NoFrame]
    /\ result = [op |-> "pool", _connection_pool |-> 0, made |-> 0, closed |-> {},
                 closing |-> 0]
    /\ provisioning = NoProvisioning
    /\ files = NoFiles
    /\ audit = NoAudit

PoolAt(th, pc) == threads[th].pc = pc

(* pool.getconn(): PoolError on a closed pool or when no connection can be *)
(* made; else a connection keyed in this pool.                             *)
getconn(p, closed, available) ==
    IF p \in closed THEN "PoolError"
    ELSE IF ~available THEN "PoolError"
    ELSE "none"

(* pool.putconn(conn) for a connection taken from pool `from`: PoolError   *)
(* on a closed pool and for a connection the pool did not hand out.        *)
putconn(p, closed, from) ==
    IF p \in closed THEN "PoolError"
    ELSE IF p # from THEN "PoolError"
    ELSE "none"

(* Line 160: `_connection_pool.putconn(conn)` reads the global again.      *)
(* None has no putconn (AttributeError).  An exception of the finally      *)
(* clause replaces the one of the with-block.                              *)
release_pooled_current(frame, p, closed) ==
    IF p = 0
    THEN [frame EXCEPT !.pc = "done", !.exc = "AttributeError"]
    ELSE LET exc == putconn(p, closed, frame.from) IN
         IF exc = "none"
         THEN [frame EXCEPT !.pc = "done", !.released = @ + 1, !.returned_to = p]
         ELSE [frame EXCEPT !.pc = "done", !.exc = exc]

(* init_pool(): a new pool replaces the global; a constructor that fails   *)
(* sets it to None.  The pool it replaces is not closed.                   *)
InitPoolCall ==
    /\ result.made < MaxPools
    /\ \E made_ok \in BOOLEAN :
         result' = IF made_ok
                   THEN [result EXCEPT !._connection_pool = result.made + 1,
                                       !.made = @ + 1]
                   ELSE [result EXCEPT !._connection_pool = 0]
    /\ UNCHANGED <<config, keys, fetched_at, now, last, threads, provisioning, files, audit>>

(* close_pool(), lines 128-129: closeall() closes every connection of the  *)
(* pool, those in use included.                                            *)
ClosePoolCloseall ==
    /\ result.closing = 0
    /\ result._connection_pool # 0
    /\ result' = [result EXCEPT !.closed = @ \cup {result._connection_pool},
                                !.closing = result._connection_pool]
    /\ threads' = [th \in PoolThreads |->
                     IF threads[th].kind = "pooled"
                        /\ threads[th].from = result._connection_pool
                        /\ threads[th].pc \in {"using", "finally"}
                     THEN [threads[th] EXCEPT !.closed = TRUE]
                     ELSE threads[th]]
    /\ UNCHANGED <<config, keys, fetched_at, now, last, provisioning, files, audit>>

(* close_pool(), line 130: _connection_pool = None. *)
ClosePoolClear ==
    /\ result.closing # 0
    /\ result' = [result EXCEPT !._connection_pool = 0, !.closing = 0]
    /\ UNCHANGED <<config, keys, fetched_at, now, last, threads, provisioning, files, audit>>

(* get_connection, line 155: `if _connection_pool:` *)
GetConnectionTest(th) ==
    /\ PoolAt(th, "idle")
    /\ threads' = [threads EXCEPT ![th].pc =
                      IF result._connection_pool # 0 THEN "getconn" ELSE "connect"]
    /\ UNCHANGED <<config, keys, fetched_at, now, last, result, provisioning, files, audit>>

(* Line 156: conn = _connection_pool.getconn() *)
GetConnectionGetconn(th) ==
    /\ PoolAt(th, "getconn")
    /\ \E available \in BOOLEAN :
         LET p == result._connection_pool
             exc == IF p = 0 THEN "AttributeError"
                    ELSE getconn(p, result.closed, available)
         IN  threads' = [threads EXCEPT ![th] =
                 IF exc = "none"
                 THEN [@ EXCEPT !.pc = "using", !.kind = "pooled", !.from = p]
                 ELSE [@ EXCEPT !.pc = "done", !.exc = exc]]
    /\ UNCHANGED <<config, keys, fetched_at, now, last, result, provisioning, files, audit>>

(* Lines 162-165: conn = psycopg2.connect(db_url) *)
GetConnectionConnect(th) ==
    /\ PoolAt(th, "connect")
    /\ \E connected \in BOOLEAN :
         threads' = [threads EXCEPT ![th] =
             IF connected
             THEN [@ EXCEPT !.pc = "using", !.kind = "direct"]
             ELSE [@ EXCEPT !.pc = "done", !.exc = "OperationalError"]]
    /\ UNCHANGED <<config, keys, fetched_at, now, last, result, provisioning, files, audit>>

(* Lines 158 and 167: the with-block runs and ends, normally or by an      *)
(* exception.                                                              *)
WithBlockEnds(th) ==
    /\ PoolAt(th, "using")
    /\ \E body \in {"returned", "raised"} :
         threads' = [threads EXCEPT ![th].pc = "finally", ![th].body = body,
                                    ![th].exc = IF body = "raised" THEN "Exception"
                                                ELSE "none"]
    /\ UNCHANGED <<config, keys, fetched_at, now, last, result, provisioning, files, audit>>

(* Lines 159-160: finally: _connection_pool.putconn(conn) *)
ReleasePooled(th) ==
    /\ PoolAt(th, "finally")
    /\ threads[th].kind = "pooled"
    /\ threads' = [threads EXCEPT ![th] =
                      release_pooled_current(@, result._connection_pool, result.closed)]
    /\ UNCHANGED <<config, keys, fetched_at, now, last, result, provisioning, files, audit>>

(* Lines 168-169: finally: conn.close() *)
ReleaseDirect(th) ==
    /\ PoolAt(th, "finally")
    /\ threads[th].kind = "direct"
    /\ threads' = [threads EXCEPT ![th].pc = "done", ![th].released = @ + 1,
                                  ![th].closed = TRUE]
    /\ UNCHANGED <<config, keys, fetched_at, now, last, result, provisioning, files, audit>>

NextConnections ==
    \/ InitPoolCall
    \/ ClosePoolCloseall
    \/ ClosePoolClear
    \/ \E th \in PoolThreads :
          \/ GetConnectionTest(th)
          \/ GetConnectionGetconn(th)
          \/ GetConnectionConnect(th)
          \/ WithBlockEnds(th)
          \/ ReleasePooled(th)
          \/ ReleaseDirect(th)

SpecConnections == InitConnections /\ [][NextConnections]_vars

----------------------------------------------------------------------------
(* Vocabulary: the threads whose with-block was entered with a connection  *)
(* and has been left.                                                      *)

HandedOutAndLeft == {th \in PoolThreads : PoolAt(th, "done") /\ threads[th].kind # "none"}

(* C30: every connection handed out by get_connection is released exactly  *)
(* once when its with-block exits, normally or by an exception: a pooled   *)
(* connection is back in the pool it was taken from, a direct connection   *)
(* is closed, and the release itself raises nothing, also when             *)
(* close_pool() or init_pool() ran while the connection was in use.        *)
C30_EveryConnectionReleasedExactlyOnce ==
    \A th \in HandedOutAndLeft :
        /\ threads[th].released = 1
        /\ threads[th].kind = "pooled" => threads[th].returned_to = threads[th].from
        /\ threads[th].kind = "direct" => threads[th].closed
        /\ threads[th].exc = IF threads[th].body = "raised" THEN "Exception" ELSE "none"

====
